---- MODULE Spec2Model ----
(***************************************************************************)
(* LogRelevanceExtractor (src/tests/log_relevance_extractor.py).           *)
(*                                                                         *)
(* A log buffer is a sequence of lines; a line is a sequence of tokens.    *)
(* A token is one character of the text ("[", "'", "5", ...) or one of the *)
(* literal words the extractor searches for ("Document(", "page_content=", *)
(* "metadata=", the words of the two warning phrases, the metadata keys).  *)
(* No word can be spelled with the one-character tokens, so a substring    *)
(* test or a regular expression of the source is decided on tokens exactly *)
(* as it is on characters.  Positions are 0-based, as in the source.       *)
(***************************************************************************)
EXTENDS Integers, Sequences, FiniteSets, TLC

\* ------------------------------------------------------------------ tokens

Digits == {"0", "1", "2", "5"}

\* "Relevance scores must be between 0 and 1" is the word WRel followed by
\* the digit "1"; ", got [" is the characters "," " " the word "got" " " "[".
WRel == "Relevance scores must be between 0 and "

WGot == "got"

\* "No relevant docs were retrieved" and "using the relevance score threshold"
WNrd == "No relevant docs were retrieved"

WUth == "using the relevance score threshold"

DOC == "Document("

PC == "page_content="

MD == "metadata="

Q1 == "'"

Q2 == "\""

BS == "\\"

SP == " "

KeySource == "source"

KeyId == "id"

KeySeq == "seq_num"

KeyQuality == "quality_score"

\* a letter that occurs in none of the words above
LX == "x"

LY == "y"

Chars == Digits \cup {"[", "]", "(", ")", "{", "}", Q1, Q2, BS, ",", SP, ":",
                      "-", "+", ".", LX, LY}

\* a run of letters x, as one token
XRun == "x..x"

Words == {WRel, WGot, WNrd, WUth, DOC, PC, MD, KeySource, KeyId, KeySeq,
          KeyQuality, XRun}

Tokens == Chars \cup Words

\* ----------------------------------------------------------- text helpers

\* s[i] of the source (0-based)
At(s, i) == s[i + 1]

\* s[a:b] of the source
Slice(s, a, b) == IF b <= a THEN << >> ELSE SubSeq(s, a + 1, b)

\* the least position in a..b where P holds; none when there is no such one
FirstIn(a, b, P(_), none) ==
    IF \E i \in a..b : P(i)
    THEN CHOOSE i \in a..b : P(i) /\ \A j \in a..(i - 1) : ~P(j)
    ELSE none

\* whether the pattern w, a token sequence, occurs in s at position i
OccursAt(s, w, i) == \A k \in 1..Len(w) : s[i + k] = w[k]

\* s.find(w, pos) for a pattern w given as a token sequence; -1 when absent
Find(s, w, pos) ==
    LET P(i) == OccursAt(s, w, i) IN FirstIn(pos, Len(s) - Len(w), P, -1)

\* w in s
Contains(s, w) == Find(s, w, 0) # -1

\* the first position >= pos holding a token of set S; Len(s) when none
SkipWhile(s, pos, S) ==
    LET P(i) == At(s, i) \notin S IN FirstIn(pos, Len(s) - 1, P, Len(s))

\* the first position >= pos holding token t; -1 when none
IndexOf(s, t, pos) ==
    LET P(i) == At(s, i) = t IN FirstIn(pos, Len(s) - 1, P, -1)

\* a while loop run for at most n passes: Go is its condition and Step its
\* body, both on the text s and the loop's variables st.  The passes are
\* taken in two halves, so that a long loop nests no deeper than log n.
RECURSIVE While(_, _, _, _, _)
While(Go(_, _), Step(_, _), s, st, n) ==
    IF n <= 0 \/ ~Go(s, st) THEN st
    ELSE IF n = 1 THEN Step(s, st)
    ELSE While(Go, Step, s, While(Go, Step, s, st, n \div 2), n - (n \div 2))

\* s.replace(a + b, b) for the two-character text a b
RECURSIVE Replace2(_, _, _)
Replace2(s, a, b) ==
    IF Len(s) < 2 THEN s
    ELSE IF s[1] = a /\ s[2] = b THEN <<b>> \o Replace2(Slice(s, 2, Len(s)), a, b)
    ELSE <<s[1]>> \o Replace2(Tail(s), a, b)

\* ------------------------------------------------------------ the phrases

\* "Relevance scores must be between 0 and 1"
RelevancePhrase == <<WRel, "1">>

\* relevance_warning_start_pattern: the phrase and ", got ["
RelevanceStart == RelevancePhrase \o <<",", SP, WGot, SP, "[">>

\* "No relevant docs were retrieved using the relevance score threshold"
ThresholdPhrase == <<WNrd, SP, WUth>>

\* "No relevant docs were retrieved"
NoDocsPhrase == <<WNrd>>

\* -------------------------------------------------------------- numbers

DigitVal(t) == CASE t = "0" -> 0 [] t = "1" -> 1 [] t = "2" -> 2 [] t = "5" -> 5

\* the integer spelled by a run of digits
RECURSIVE DigitsVal(_, _)
DigitsVal(s, acc) ==
    IF s = << >> THEN acc ELSE DigitsVal(Tail(s), 10 * acc + DigitVal(s[1]))

\* n / 10^k in lowest form: the value of a decimal numeral
RECURSIVE Norm(_, _)
Norm(n, k) == IF k > 0 /\ n % 10 = 0 THEN Norm(n \div 10, k - 1) ELSE <<n, k>>

NumChars == Digits \cup {"."}

\* float(s) for a text of signs, digits and dots: ok is FALSE where Python
\* raises ValueError, else val is the number as <<n, k>> = n / 10^k
Float(s) ==
    LET signed == s # << >> /\ s[1] \in {"-", "+"}
        body == IF signed THEN Tail(s) ELSE s
        dot == IndexOf(body, ".", 0)
        int == IF dot = -1 THEN body ELSE Slice(body, 0, dot)
        frac == IF dot = -1 THEN << >> ELSE Slice(body, dot + 1, Len(body))
        good == /\ \A i \in 1..Len(int) : int[i] \in Digits
                /\ \A i \in 1..Len(frac) : frac[i] \in Digits
                /\ Len(int) + Len(frac) > 0
        mag == DigitsVal(int \o frac, 0)
    IN IF good
       THEN [ok |-> TRUE,
             val |-> Norm(IF signed /\ s[1] = "-" THEN 0 - mag ELSE mag, Len(frac))]
       ELSE [ok |-> FALSE, val |-> <<0, 0>>]

\* the match of a pattern without the fraction, r'([-+]?\d+)'
ScoreMatchLenInteger(s) ==
    LET sg == IF s # << >> /\ s[1] \in {"-", "+"} THEN 1 ELSE 0
        d1 == SkipWhile(s, sg, Digits)
    IN IF d1 > sg THEN d1 ELSE 0

\* re.match(r'([-+]?\d*\.?\d+)', s): the length of the match, 0 when none
ScoreMatchLen(s) ==
    LET sg == IF s # << >> /\ s[1] \in {"-", "+"} THEN 1 ELSE 0
        d1 == SkipWhile(s, sg, Digits)
        d2 == IF d1 < Len(s) /\ At(s, d1) = "." THEN SkipWhile(s, d1 + 1, Digits)
              ELSE d1
    IN IF d2 > d1 + 1 THEN d2
       ELSE IF d1 > sg THEN d1
       ELSE 0

\* ------------------------------------------------- _parse_document_list

\* the condition of the paren scan's while loop (line 198)
DocParenGo(s, st) == st.doc_end < Len(s) /\ st.paren_count > 0

\* the body of the paren scan's while loop (lines 199-216); the marker
\* "Document(" ends with an open paren
DocParenStep(s, st) ==
    LET char == At(s, st.doc_end)
        isq == char \in {Q1, Q2}
               /\ (st.doc_end = 0 \/ At(s, st.doc_end - 1) # BS)
        closes == isq /\ st.in_string /\ char = st.string_quote
        opens == isq /\ ~st.in_string
    IN [doc_end |-> st.doc_end + 1,
        paren_count |->
            CASE ~isq /\ ~st.in_string /\ char \in {"(", DOC} -> st.paren_count + 1
              [] ~isq /\ ~st.in_string /\ char = ")" -> st.paren_count - 1
              [] OTHER -> st.paren_count,
        in_string |-> IF closes THEN FALSE ELSE IF opens THEN TRUE
                      ELSE st.in_string,
        string_quote |-> IF closes THEN "None" ELSE IF opens THEN char
                         ELSE st.string_quote]

\* the paren scan of _parse_document_list, started after the marker at
\* doc_start
DocParenScan(s, doc_start) ==
    While(DocParenGo, DocParenStep, s,
          [doc_end |-> doc_start + 1, paren_count |-> 1, in_string |-> FALSE,
           string_quote |-> "None"], Len(s))

\* re.search(r"page_content='((?:[^']|\\')*?)'", doc_part, re.DOTALL) and the
\* double-quoted twin: the text between the first page_content=<q> and the
\* next <q>
ContentMatch(doc_part, q) ==
    LET p == Find(doc_part, <<PC, q>>, 0)
        close == IF p = -1 THEN -1 ELSE IndexOf(doc_part, q, p + 2)
    IN IF close = -1 THEN [ok |-> FALSE, group |-> << >>]
       ELSE [ok |-> TRUE, group |-> Slice(doc_part, p + 2, close)]

\* re.search(r"metadata=({[^}]*}[)}]*)", doc_part)
MetadataMatch1(doc_part) ==
    LET p == Find(doc_part, <<MD, "{">>, 0)
        close == IF p = -1 THEN -1 ELSE IndexOf(doc_part, "}", p + 2)
    IN IF close = -1 THEN [ok |-> FALSE, group |-> << >>]
       ELSE [ok |-> TRUE,
             group |-> Slice(doc_part, p + 1,
                             SkipWhile(doc_part, close + 1, {")", "}"}))]

\* re.search(r"metadata=({.*?}\))", doc_part)
MetadataMatch2(doc_part) ==
    LET p == Find(doc_part, <<MD, "{">>, 0)
        close == IF p = -1 THEN -1 ELSE Find(doc_part, <<"}", ")">>, p + 2)
    IN IF close = -1 THEN [ok |-> FALSE, group |-> << >>]
       ELSE [ok |-> TRUE, group |-> Slice(doc_part, p + 1, close + 2)]

MetadataMatch(doc_part) ==
    IF MetadataMatch1(doc_part).ok THEN MetadataMatch1(doc_part)
    ELSE MetadataMatch2(doc_part)

\* the iteration cap of the record loop
IterationCap == 20

\* the tokens the loop skips between an envelope and its score
AfterDocSkip == {SP, ",", ")"}

\* a result appended when one of the two matches succeeds
EmitsRecordEither(content_match, metadata_match) ==
    content_match.ok \/ metadata_match.ok

\* whether this pass of the loop appends a result for the balanced envelope
EmitsRecord(content_match, metadata_match) ==
    content_match.ok /\ metadata_match.ok

\* the loop resuming at the marker itself
RetryPosSame(doc_start) == doc_start

\* the loop resuming past the nine characters of the marker and what follows
RetryPosNine(doc_start) == doc_start + 9

\* where the loop resumes when the envelope is unbalanced
RetryPos(doc_start) == doc_start + 1

\* the loop resuming after the run it skipped behind the envelope
NoScorePosAfterRun(doc_end, after_doc) == after_doc

\* where the loop resumes when no score follows the envelope
NoScorePos(doc_end, after_doc) == doc_end

\* one pass of the while loop of _parse_document_list, from cursor pos;
\* done is TRUE when the loop breaks (no further marker)
DocLoopStep(s, pos) ==
    LET doc_start == IndexOf(s, DOC, pos)
        scan == DocParenScan(s, doc_start)
        doc_end == scan.doc_end
        doc_part == Slice(s, doc_start, doc_end)
        after_doc == SkipWhile(s, doc_end, AfterDocSkip)
        mlen == ScoreMatchLen(Slice(s, after_doc, Len(s)))
        single == ContentMatch(doc_part, Q1)
        content_match == IF single.ok THEN single ELSE ContentMatch(doc_part, Q2)
        metadata_match == MetadataMatch(doc_part)
        content == content_match.group
        unescaped_content == Replace2(Replace2(content, BS, Q1), BS, Q2)
    IN IF doc_start = -1
       THEN [done |-> TRUE, pos |-> pos, counted |-> FALSE, out |-> << >>]
       ELSE IF scan.paren_count # 0
       THEN [done |-> FALSE, pos |-> RetryPos(doc_start), counted |-> FALSE,
             out |-> << >>]
       ELSE IF mlen = 0
       THEN [done |-> FALSE, pos |-> NoScorePos(doc_end, after_doc),
             counted |-> TRUE, out |-> << >>]
       ELSE [done |-> FALSE, pos |-> after_doc + mlen, counted |-> TRUE,
             out |-> IF EmitsRecord(content_match, metadata_match)
                     THEN <<[content |-> unescaped_content,
                             metadata |-> metadata_match.group,
                             score |-> Slice(s, after_doc, after_doc + mlen),
                             doc_start |-> doc_start]>>
                     ELSE << >>]

RECURSIVE DocLoop(_, _, _, _)
DocLoop(s, pos, iteration, results) ==
    IF pos < Len(s) /\ iteration < IterationCap
    THEN LET step == DocLoopStep(s, pos)
         IN IF step.done THEN results
            ELSE DocLoop(s, step.pos,
                         IF step.counted THEN iteration + 1 ELSE iteration,
                         results \o step.out)
    ELSE results

\* _parse_document_list(doc_list_str): the (content, metadata, score) tuples,
\* each with the position of its marker in doc_list_str
ParseDocumentList(doc_list_str) == DocLoop(doc_list_str, 0, 0, << >>)

\* ------------------------------------------------------- _parse_metadata

\* re.search(key + r":\s*'([^']+)'", s) for a quoted key: the group, as
\* [ok, group], searched from position pos on
RECURSIVE QuotedValueSearch(_, _, _)
QuotedValueSearch(s, key, pos) ==
    LET p == Find(s, <<Q1, key, Q1, ":">>, pos)
        j == SkipWhile(s, p + 4, {SP})
        close == IndexOf(s, Q1, j + 1)
    IN IF p = -1 THEN [ok |-> FALSE, group |-> << >>]
       ELSE IF j < Len(s) /\ At(s, j) = Q1 /\ close > j + 1
       THEN [ok |-> TRUE, group |-> Slice(s, j + 1, close)]
       ELSE QuotedValueSearch(s, key, p + 1)

\* re.search(key + r":\s*(<class>+)", s) for a quoted key and a character
\* class given as a set: the first match's group
RECURSIVE RunValueSearch(_, _, _, _)
RunValueSearch(s, key, class, pos) ==
    LET p == Find(s, <<Q1, key, Q1, ":">>, pos)
        j == SkipWhile(s, p + 4, {SP})
        end == SkipWhile(s, j, class)
    IN IF p = -1 THEN [ok |-> FALSE, group |-> << >>]
       ELSE IF end > j THEN [ok |-> TRUE, group |-> Slice(s, j, end)]
       ELSE RunValueSearch(s, key, class, p + 1)

\* the keys _parse_metadata looks for
MetadataKeys == {KeySource, KeyId, KeySeq}

MetadataLookup(metadata_str, key) ==
    IF key = KeySeq THEN RunValueSearch(metadata_str, KeySeq, Digits, 0)
    ELSE QuotedValueSearch(metadata_str, key, 0)

\* _parse_metadata without the lookup of 'id'
ParseMetadataNoId(metadata_str) ==
    [k \in {key \in MetadataKeys \ {KeyId} :
                MetadataLookup(metadata_str, key).ok} |->
        MetadataLookup(metadata_str, k).group]

\* _parse_metadata(metadata_str): a function from the keys found to values
ParseMetadata(metadata_str) ==
    [k \in {key \in MetadataKeys : MetadataLookup(metadata_str, key).ok} |->
        MetadataLookup(metadata_str, k).group]

\* the lookup made under the key 'id'
MetadataGetId(metadata, key) ==
    IF KeyId \in DOMAIN metadata THEN metadata[KeyId] ELSE <<"None">>

\* metadata.get('source')
MetadataGet(metadata, key) ==
    IF key \in DOMAIN metadata THEN metadata[key] ELSE <<"None">>

\* ----------------------------------------------------------- timestamp

\* timestamp_pattern, \d{4}-\d{2}-\d{2} \d{2}:\d{2}:\d{2},\d{3}, as classes
TimestampShape ==
    <<"d", "d", "d", "d", "-", "d", "d", "-", "d", "d", SP, "d", "d", ":",
      "d", "d", ":", "d", "d", ",", "d", "d", "d">>

ShapeAt(s, pos, shape) ==
    /\ pos + Len(shape) <= Len(s)
    /\ \A i \in 1..Len(shape) :
         IF shape[i] = "d" THEN s[pos + i] \in Digits ELSE s[pos + i] = shape[i]

\* where timestamp_pattern.search(line) starts looking
TimestampFrom(line) == 0

ShapeSearch(s, pos, shape) ==
    LET P(i) == ShapeAt(s, i, shape)
    IN FirstIn(pos, Len(s) - Len(shape), P, -1)

\* timestamp_match.group(1) if timestamp_match else None
Timestamp(line) ==
    LET p == ShapeSearch(line, TimestampFrom(line), TimestampShape)
    IN IF p = -1 THEN <<"None">> ELSE Slice(line, p, p + Len(TimestampShape))

\* ------------------------------------------------------ content preview

\* the preview length of document_content
PreviewLen == 500

Ellipsis == <<".", ".", ".">>

\* the number of letters of the token XRun
RunLen == 250

\* len() of a token in characters
CharLen(t) ==
    CASE t = WRel -> 39 [] t = WGot -> 3 [] t = WNrd -> 31 [] t = WUth -> 35
      [] t = DOC -> 9 [] t = PC -> 13 [] t = MD -> 9 [] t = KeySource -> 6
      [] t = KeyId -> 2 [] t = KeySeq -> 7 [] t = KeyQuality -> 13
      [] t = XRun -> RunLen [] OTHER -> 1

RECURSIVE TextLen(_)
TextLen(s) == IF s = << >> THEN 0 ELSE CharLen(s[1]) + TextLen(Tail(s))

\* the first n characters of a token: the token when it fits, n letters x of
\* a run, and otherwise a mark of the cut word
CutToken(t, n) ==
    IF CharLen(t) <= n THEN <<t>>
    ELSE IF t = XRun THEN [i \in 1..n |-> LX]
    ELSE <<"cut">>

\* s[:n]
RECURSIVE TakeChars(_, _)
TakeChars(s, n) ==
    IF s = << >> \/ n <= 0 THEN << >>
    ELSE IF CharLen(s[1]) <= n
    THEN <<s[1]>> \o TakeChars(Tail(s), n - CharLen(s[1]))
    ELSE CutToken(s[1], n)

\* the preview cut at a length of PreviewLen or more
PreviewAtLeast(doc_content) ==
    IF TextLen(doc_content) >= PreviewLen
    THEN TakeChars(doc_content, PreviewLen) \o Ellipsis
    ELSE doc_content

\* doc_content[:500] + "..." if len(doc_content) > 500 else doc_content
Preview(doc_content) ==
    IF TextLen(doc_content) > PreviewLen
    THEN TakeChars(doc_content, PreviewLen) \o Ellipsis
    ELSE doc_content

\* ------------------------------- _extract_relevance_scores_from_line

\* the condition of the bracket scan's while loop in
\* _extract_relevance_scores_from_line (line 99)
ExtractBracketGo(line, st) == st.pos < Len(line) /\ st.bracket_count > 0

\* the body of that loop with a quote test that does not look at the
\* character before
ExtractBracketStepNoEscape(line, st) ==
    LET char == At(line, st.pos)
        isq == char \in {Q1, Q2}
        closes == isq /\ st.in_string /\ char = st.string_quote
        opens == isq /\ ~st.in_string
    IN [pos |-> st.pos + 1,
        bracket_count |->
            CASE ~isq /\ ~st.in_string /\ char = "[" -> st.bracket_count + 1
              [] ~isq /\ ~st.in_string /\ char = "]" -> st.bracket_count - 1
              [] OTHER -> st.bracket_count,
        in_string |-> IF closes THEN FALSE ELSE IF opens THEN TRUE
                      ELSE st.in_string,
        string_quote |-> IF closes THEN "None" ELSE IF opens THEN char
                         ELSE st.string_quote]

\* the body of that loop (lines 100-117)
ExtractBracketStep(line, st) ==
    LET char == At(line, st.pos)
        isq == char \in {Q1, Q2} /\ (st.pos = 0 \/ At(line, st.pos - 1) # BS)
        closes == isq /\ st.in_string /\ char = st.string_quote
        opens == isq /\ ~st.in_string
    IN [pos |-> st.pos + 1,
        bracket_count |->
            CASE ~isq /\ ~st.in_string /\ char = "[" -> st.bracket_count + 1
              [] ~isq /\ ~st.in_string /\ char = "]" -> st.bracket_count - 1
              [] OTHER -> st.bracket_count,
        in_string |-> IF closes THEN FALSE ELSE IF opens THEN TRUE
                      ELSE st.in_string,
        string_quote |-> IF closes THEN "None" ELSE IF opens THEN char
                         ELSE st.string_quote]

\* the bracket scan of _extract_relevance_scores_from_line, started after the
\* opening bracket at start_pos
ExtractBracketScan(line, start_pos) ==
    While(ExtractBracketGo, ExtractBracketStep, line,
          [pos |-> start_pos + 1, bracket_count |-> 1, in_string |-> FALSE,
           string_quote |-> "None"], Len(line))

\* quality_score_pattern.findall(doc_content)[0], when there is one
QualityMatch(doc_content) ==
    RunValueSearch(doc_content, KeyQuality, NumChars, 0)

\* the body of the for loop over doc_matches: the entry built from one
\* tuple, or nothing when float() raises ValueError (caught at line 161)
BuildEntry(m, line, line_num, start_pos) ==
    LET score == Float(m.score)
        metadata == ParseMetadata(m.metadata)
        quality_scores == QualityMatch(m.content)
        quality == Float(quality_scores.group)
    IN IF ~score.ok \/ (quality_scores.ok /\ ~quality.ok) THEN << >>
       ELSE <<[document_content |-> Preview(m.content),
               metadata |-> metadata,
               similarity_score |-> score.val,
               quality_score |-> IF quality_scores.ok THEN quality.val
                                 ELSE <<"None">>,
               source_line |-> line,
               timestamp |-> Timestamp(line),
               source_file |-> MetadataGet(metadata, KeySource),
               line_num |-> line_num,
               doc_start |-> start_pos + m.doc_start]>>

RECURSIVE BuildEntries(_, _, _, _)
BuildEntries(doc_matches, line, line_num, start_pos) ==
    IF doc_matches = << >> THEN << >>
    ELSE BuildEntry(doc_matches[1], line, line_num, start_pos)
         \o BuildEntries(Tail(doc_matches), line, line_num, start_pos)

\* _extract_relevance_scores_from_line(line, line_num); every entry carries,
\* beside its fields, the line number and the position of its marker
ExtractRelevanceScoresFromLine(line, line_num) ==
    LET m == Find(line, RelevanceStart, 0)
        start_pos == m + Len(RelevanceStart) - 1
        scan == ExtractBracketScan(line, start_pos)
        doc_list_str == Slice(line, start_pos, scan.pos)
    IN IF m = -1 THEN << >>
       ELSE IF scan.bracket_count # 0 THEN << >>
       ELSE BuildEntries(ParseDocumentList(doc_list_str), line, line_num,
                         start_pos)

\* ---------------------------------------------------- parse_log_content

\* whether the handler of parse_log_content (line 75) catches a failure of
\* the line's processing
ParseCatches == TRUE

\* the processing of one line by parse_log_content: the entries it adds and
\* whether an exception leaves _extract_relevance_scores_from_line (none
\* does: ValueError is caught inside, per tuple)
ParseLine(line, line_num) ==
    IF Contains(line, RelevancePhrase)
    THEN [out |-> ExtractRelevanceScoresFromLine(line, line_num),
          failed |-> FALSE]
    ELSE [out |-> << >>, failed |-> FALSE]

\* the element of a set of one element
Only(S) == CHOOSE v \in S : TRUE

\* the for loop of parse_log_content over the lines from line_num on
RECURSIVE LinesLoopParse(_, _, _)
LinesLoopParse(lines, line_num, acc) ==
    IF line_num > Len(lines) THEN [value |-> acc, raised |-> FALSE]
    ELSE Only({IF r.failed /\ ~ParseCatches
               THEN [value |-> << >>, raised |-> TRUE]
               ELSE LinesLoopParse(lines, line_num + 1, acc \o r.out) :
                  r \in {ParseLine(lines[line_num], line_num)}})

\* parse_log_content with its return statement inside the loop
ParseLogContentFirst(lines) ==
    LinesLoopParse(SubSeq(lines, 1, IF lines = << >> THEN 0 ELSE 1), 1, << >>)

\* parse_log_content(log_content), log_content given as its lines
ParseLogContent(lines) == LinesLoopParse(lines, 1, << >>)

\* ------------------------------------------- extract_threshold_warnings

\* threshold_warning_pattern.findall(line): the groups of the successive
\* matches, searched from pos on
RECURSIVE ThresholdFindall(_, _)
ThresholdFindall(line, pos) ==
    LET p == Find(line, ThresholdPhrase \o <<SP>>, pos)
        j == p + Len(ThresholdPhrase) + 1
        end == SkipWhile(line, j, NumChars)
    IN IF p = -1 THEN << >>
       ELSE IF end > j
       THEN <<Slice(line, j, end)>> \o ThresholdFindall(line, end)
       ELSE ThresholdFindall(line, p + 1)

\* the for loop over threshold_matches: the warnings appended until float()
\* raises ValueError, and whether it raised
RECURSIVE ThresholdAppend(_, _, _, _)
ThresholdAppend(matches, line, line_num, acc) ==
    IF matches = << >> THEN [out |-> acc, failed |-> FALSE]
    ELSE IF ~Float(matches[1]).ok THEN [out |-> acc, failed |-> TRUE]
    ELSE ThresholdAppend(Tail(matches), line, line_num,
             Append(acc, [line_number |-> line_num,
                          threshold |-> Float(matches[1]).val,
                          source_line |-> line]))

\* the processing of one line with its warnings numbered one line further
ThresholdLineNext(line, line_num) ==
    IF Contains(line, ThresholdPhrase)
    THEN ThresholdAppend(ThresholdFindall(line, 0), line, line_num + 1, << >>)
    ELSE [out |-> << >>, failed |-> FALSE]

\* the processing of one line by extract_threshold_warnings: the warnings
\* it adds and whether float() raised
ThresholdLine(line, line_num) ==
    IF Contains(line, ThresholdPhrase)
    THEN ThresholdAppend(ThresholdFindall(line, 0), line, line_num, << >>)
    ELSE [out |-> << >>, failed |-> FALSE]

\* whether the handlers of extract_threshold_warnings (lines 341, 344) catch
\* a failure of the line's processing
ThresholdCatches == TRUE

RECURSIVE LinesLoopThreshold(_, _, _)
LinesLoopThreshold(lines, line_num, acc) ==
    IF line_num > Len(lines) THEN [value |-> acc, raised |-> FALSE]
    ELSE LET r == ThresholdLine(lines[line_num], line_num)
         IN IF r.failed /\ ~ThresholdCatches
            THEN [value |-> << >>, raised |-> TRUE]
            ELSE LinesLoopThreshold(lines, line_num + 1, acc \o r.out)

\* extract_threshold_warnings(log_content)
ExtractThresholdWarnings(lines) == LinesLoopThreshold(lines, 1, << >>)

\* --------------------------------------------- handle_malformed_entries

\* the condition of the bracket scan's while loop in
\* handle_malformed_entries (line 384)
MalformedBracketGo(line, st) == st.pos < Len(line) /\ st.bracket_count > 0

\* the body of that loop counting the brackets inside strings too
MalformedBracketStepInString(line, st) ==
    LET char == At(line, st.pos)
        isq == char \in {Q1, Q2} /\ (st.pos = 0 \/ At(line, st.pos - 1) # BS)
        closes == isq /\ st.in_string /\ char = st.string_quote
        opens == isq /\ ~st.in_string
    IN [pos |-> st.pos + 1,
        bracket_count |->
            CASE ~isq /\ char = "[" -> st.bracket_count + 1
              [] ~isq /\ char = "]" -> st.bracket_count - 1
              [] OTHER -> st.bracket_count,
        in_string |-> IF closes THEN FALSE ELSE IF opens THEN TRUE
                      ELSE st.in_string,
        string_quote |-> IF closes THEN "None" ELSE IF opens THEN char
                         ELSE st.string_quote]

\* the body of that loop (lines 385-402)
MalformedBracketStep(line, st) ==
    LET char == At(line, st.pos)
        isq == char \in {Q1, Q2} /\ (st.pos = 0 \/ At(line, st.pos - 1) # BS)
        closes == isq /\ st.in_string /\ char = st.string_quote
        opens == isq /\ ~st.in_string
    IN [pos |-> st.pos + 1,
        bracket_count |->
            CASE ~isq /\ ~st.in_string /\ char = "[" -> st.bracket_count + 1
              [] ~isq /\ ~st.in_string /\ char = "]" -> st.bracket_count - 1
              [] OTHER -> st.bracket_count,
        in_string |-> IF closes THEN FALSE ELSE IF opens THEN TRUE
                      ELSE st.in_string,
        string_quote |-> IF closes THEN "None" ELSE IF opens THEN char
                         ELSE st.string_quote]

\* the bracket scan of handle_malformed_entries, started after the
\* opening bracket at start_pos
MalformedBracketScan(line, start_pos) ==
    While(MalformedBracketGo, MalformedBracketStep, line,
          [pos |-> start_pos + 1, bracket_count |-> 1, in_string |-> FALSE,
           string_quote |-> "None"], Len(line))

\* the outer test of handle_malformed_entries (lines 364-366)
MalformedTrigger(line) ==
    \/ Contains(line, RelevancePhrase)
    \/ Contains(line, NoDocsPhrase)
    \/ Contains(line, <<DOC>>)

\* is_parsed never set
IsParsedNever(line) == FALSE

\* is_parsed of the relevance branch (lines 376-410)
IsParsed(line) ==
    LET m == Find(line, RelevanceStart, 0)
        start_pos == m + Len(RelevanceStart) - 1
        scan == MalformedBracketScan(line, start_pos)
        doc_list_str == Slice(line, start_pos, scan.pos)
    IN scan.bracket_count = 0 /\ ParseDocumentList(doc_list_str) # << >>

\* what handle_malformed_entries appends for one line
MalformedLine(line, line_num) ==
    IF ~MalformedTrigger(line) THEN << >>
    ELSE IF Contains(line, RelevancePhrase)
    THEN IF Find(line, RelevanceStart, 0) # -1 /\ ~IsParsed(line)
         THEN <<[line_number |-> line_num,
                 type |-> "relevance_warning_no_docs",
                 source_line |-> line]>>
         ELSE << >>
    ELSE IF Contains(line, NoDocsPhrase)
    THEN IF ThresholdFindall(line, 0) = << >>
         THEN <<[line_number |-> line_num,
                 type |-> "threshold_warning_malformed",
                 source_line |-> line]>>
         ELSE << >>
    ELSE << >>

RECURSIVE LinesLoopMalformed(_, _, _)
LinesLoopMalformed(lines, line_num, acc) ==
    IF line_num > Len(lines) THEN [value |-> acc, raised |-> FALSE]
    ELSE LinesLoopMalformed(lines, line_num + 1,
                            acc \o MalformedLine(lines[line_num], line_num))

\* handle_malformed_entries(log_content)
HandleMalformedEntries(lines) == LinesLoopMalformed(lines, 1, << >>)

\* ------------------------------------------------------------ log texts

\* (Document(page_content=<q>content<q>, metadata=meta), score)
Rec(q, content, meta, score) ==
    <<"(", DOC, PC, q>> \o content \o <<q, ",", SP, MD>> \o meta
        \o <<")", ",", SP>> \o score \o <<")">>

\* {'source': 'y'}
MetaSource == <<"{", Q1, KeySource, Q1, ":", SP, Q1, LY, Q1, "}">>

\* {'source': 'y', 'seq_num': 1, 'id': 'x'}
MetaFull ==
    <<"{", Q1, KeySource, Q1, ":", SP, Q1, LY, Q1, ",", SP, Q1, KeySeq, Q1,
      ":", SP, "1", ",", SP, Q1, KeyId, Q1, ":", SP, Q1, LX, Q1, "}">>

\* 2025-01-25 02:00:11,052
TimestampText ==
    <<"2", "0", "2", "5", "-", "0", "1", "-", "2", "5", SP, "0", "2", ":",
      "0", "0", ":", "1", "1", ",", "0", "5", "2">>

\* the log lines the model starts from; an edit changes one token of a line
Templates ==
    << \* the end-to-end line of the module's demo
       RelevanceStart \o Rec(Q1, <<LX>>, MetaSource, <<"0", ".", "5">>) \o <<"]">>,
       \* two records, the second double-quoted, with a timestamp
       TimestampText \o <<SP>> \o RelevanceStart
         \o Rec(Q1, <<LX, Q2, "]">>, MetaFull, <<"-", "0", ".", "2", "5">>)
         \o <<",", SP>>
         \o Rec(Q2, <<Q1, ")", LY>>, MetaSource, <<"2">>) \o <<"]">>,
       \* a threshold warning
       <<LX, ":", SP>> \o ThresholdPhrase \o <<SP, "1", ".", "0">>,
       \* a threshold warning without its value
       <<WNrd, SP, LX>>,
       \* the relevance phrase without its list
       RelevancePhrase \o <<SP, LX>>,
       \* a record marker outside any warning
       <<LX, SP, DOC, PC, Q1, LX, Q1>>,
       \* a record whose content holds a quality score
       RelevanceStart
         \o Rec(Q2, <<LX, Q1, KeyQuality, Q1, ":", SP, "2", ".", "5">>,
                MetaSource, <<"1">>) \o <<"]">>,
       \* both warnings on one line
       RelevanceStart \o Rec(Q1, <<LY>>, MetaSource, <<".", "5">>) \o <<"]", SP>>
         \o ThresholdPhrase \o <<SP, "2">>,
       \* a line of no interest
       <<LX, SP, LY>>,
       \* a threshold warning that ends a sentence
       ThresholdPhrase \o <<SP, "1", ".", "0", ".">>,
       \* two threshold warnings, the second ending a sentence
       ThresholdPhrase \o <<SP, "1", ".", "0", SP>>
         \o ThresholdPhrase \o <<SP, "2", ".", "0", ".">>,
       \* a relevance warning cut inside its first record
       RelevanceStart \o <<"(", DOC, PC, Q1, LX>> >>

\* the tokens an edit may insert
EditTokens == {Q1, Q2, BS, "(", ")", "[", "]", ".", "5", DOC, "}"}

\* ---------------------------------------------------------- list texts

\* the other quote character
OtherQuote(q) == IF q = Q1 THEN Q2 ELSE Q1

\* 'quality_score': 2.5
QualityText == <<Q1, KeyQuality, Q1, ":", SP, "2", ".", "5">>

\* the payloads a record written with quote q may hold: none holds q or a
\* backslash
Contents(q) ==
    {<<LX>>,
     <<LX, OtherQuote(q), "]", ")">>,
     <<XRun, "]", XRun, LX>>,
     <<XRun, XRun>>,
     <<MD, "{", "}">>}
    \cup (IF q = Q2 THEN {QualityText, QualityText \o <<".">>} ELSE {})

\* the score texts of a record, each with the number it spells (None when
\* it spells none)
Scores ==
    {[text |-> <<"0", ".", "5">>, val |-> <<5, 1>>],
     [text |-> <<"-", "0", ".", "2", "5">>, val |-> <<0 - 25, 2>>],
     [text |-> <<"2">>, val |-> <<2, 0>>],
     [text |-> << >>, val |-> <<"None">>]}

Metas == {MetaSource, MetaFull}

\* every record the list may start with: each payload in each quoting, and
\* the plain payload with each metadata block and score text
Records ==
    UNION {{[q |-> q, content |-> c, meta |-> MetaSource,
             score |-> <<"0", ".", "5">>, val |-> <<5, 1>>] : c \in Contents(q)} :
           q \in {Q1, Q2}}
    \cup {[q |-> Q1, content |-> <<LX>>, meta |-> m, score |-> sc.text,
           val |-> sc.val] : m \in Metas, sc \in Scores}

\* the plain record written at place i of a list
PlainRecord(i) ==
    [q |-> IF i % 2 = 1 THEN Q1 ELSE Q2,
     content |-> <<LX>>,
     meta |-> MetaSource,
     score |-> IF i % 3 = 0 THEN <<"2">>
               ELSE IF i % 3 = 1 THEN <<"0", ".", "5">>
               ELSE <<"-", "0", ".", "2", "5">>,
     val |-> IF i % 3 = 0 THEN <<2, 0>>
             ELSE IF i % 3 = 1 THEN <<5, 1>>
             ELSE <<0 - 25, 2>>]

\* the text of a record
RecText(r) == Rec(r.q, r.content, r.meta, r.score)

\* the text of a list of records after its opening bracket
RECURSIVE ListBody(_)
ListBody(rs) ==
    IF rs = << >> THEN << >>
    ELSE IF Len(rs) = 1 THEN RecText(rs[1])
    ELSE RecText(rs[1]) \o <<",", SP>> \o ListBody(Tail(rs))

\* the position, in the line, of the marker of record i of the list
MarkerPos(rs, i) ==
    Len(RelevanceStart) + Len(ListBody(SubSeq(rs, 1, i - 1)))
        + (IF i > 1 THEN 2 ELSE 0) + 1

\* ------------------------------------------------------------- the state

MaxLines == 2

MaxEdits == 1

VARIABLES
    lines,      \* the log buffer, as its lines (log_content.split('\n'))
    edits,      \* the edits made to the buffer so far
    records,    \* the records the list of the last line was written from
    entries,    \* what parse_log_content returned for the buffer, or NotCalled
    warnings,   \* what extract_threshold_warnings returned, or NotCalled
    malformed,  \* what handle_malformed_entries returned, or NotCalled
    csv,        \* what format_as_csv returned for entries, or NotCalled
    rendered,   \* what format_as_json, generate_summary_report or save_results
                \* returned for entries, or NotCalled
    fs,         \* the file system: what each path names
    batch,      \* what process_multiple_log_files or process_log_directory
                \* returned, or NotCalled
    loop,       \* the record loop of _parse_document_list, pass by pass
    slots       \* what the body of parse_log_content's loop gave for each
                \* line it was run on by itself, by line number

vars == <<lines, edits, records, entries, warnings, malformed, csv, rendered,
          fs, batch, loop, slots>>

\* the state of the operations on entry sequences and on files
rest == <<rendered, fs, batch, loop, slots>>

NotCalled == [value |-> << >>, raised |-> FALSE, called |-> FALSE]

Returned(r) == [value |-> r.value, raised |-> r.raised, called |-> TRUE]

Composing == ~entries.called /\ ~warnings.called /\ ~malformed.called

LastLine == lines[Len(lines)]

WithLastLine(l) == [lines EXCEPT ![Len(lines)] = l]

\* the directory of the log files
LogDir == "logs"

\* the names a file of the directory may have
Names ==
    {<<"a", ".log">>, <<"b", ".txt">>, <<"e", ".out">>, <<".", "h", ".log">>,
     <<"c", ".csv">>}

\* os.path.join(directory_path, name)
Join(directory_path, name) == <<directory_path, "/">> \o name

\* the path given to save_results as output_file
OutPath == <<"out", ".json">>

Paths == {Join(LogDir, n) : n \in Names} \cup {OutPath}

\* what a path names: nothing, a directory, or a file with its bytes
Missing == [kind |-> "missing", data |-> << >>]

Directory == [kind |-> "dir", data |-> << >>]

File(data) == [kind |-> "file", data |-> data]

NoFiles == [p \in Paths |-> Missing]

\* the record loop before _parse_document_list is entered
LoopIdle ==
    [pc |-> "idle", s |-> << >>, pos |-> 0, iteration |-> 0, passes |-> 0,
     results |-> << >>]

RestIdle ==
    /\ rendered = NotCalled
    /\ fs = NoFiles
    /\ batch = NotCalled
    /\ loop = LoopIdle
    /\ slots = << >>

Init ==
    /\ lines = << << >> >>
    /\ edits = 0
    /\ records = << >>
    /\ entries = NotCalled
    /\ warnings = NotCalled
    /\ malformed = NotCalled
    /\ csv = NotCalled
    /\ RestIdle

\* the log gets one of the template lines as its last line
WriteLine(t) ==
    /\ Composing
    /\ LastLine = << >>
    /\ lines' = WithLastLine(Templates[t])
    /\ UNCHANGED <<edits, records, entries, warnings, malformed, csv>>
    /\ UNCHANGED rest

\* a token is inserted before position i of the last line
InsertToken(i, tok) ==
    /\ Composing
    /\ edits < MaxEdits
    /\ LastLine # << >>
    /\ lines' = WithLastLine(Slice(LastLine, 0, i) \o <<tok>>
                             \o Slice(LastLine, i, Len(LastLine)))
    /\ edits' = edits + 1
    /\ UNCHANGED <<records, entries, warnings, malformed, csv>>
    /\ UNCHANGED rest

\* the token at position i of the last line is lost
DeleteToken(i) ==
    /\ Composing
    /\ edits < MaxEdits
    /\ lines' = WithLastLine(Slice(LastLine, 0, i)
                             \o Slice(LastLine, i + 1, Len(LastLine)))
    /\ edits' = edits + 1
    /\ UNCHANGED <<records, entries, warnings, malformed, csv>>
    /\ UNCHANGED rest

CallParseLogContent ==
    /\ ~entries.called
    /\ entries' = Returned(ParseLogContent(lines))
    /\ UNCHANGED <<lines, edits, records, warnings, malformed, csv>>
    /\ UNCHANGED rest

CallExtractThresholdWarnings ==
    /\ ~warnings.called
    /\ warnings' = Returned(ExtractThresholdWarnings(lines))
    /\ UNCHANGED <<lines, edits, records, entries, malformed, csv>>
    /\ UNCHANGED rest

CallHandleMalformedEntries ==
    /\ ~malformed.called
    /\ malformed' = Returned(HandleMalformedEntries(lines))
    /\ UNCHANGED <<lines, edits, records, entries, warnings, csv>>
    /\ UNCHANGED rest

Calls ==
    \/ CallParseLogContent
    \/ CallExtractThresholdWarnings
    \/ CallHandleMalformedEntries

\* one log line, a template with at most MaxEdits tokens changed, and the
\* three operations on it
Next ==
    \/ \E t \in 1..Len(Templates) : WriteLine(t)
    \/ \E i \in 0..Len(LastLine), tok \in EditTokens : InsertToken(i, tok)
    \/ \E i \in 0..(Len(LastLine) - 1) : DeleteToken(i)
    \/ Calls

Spec == Init /\ [][Next]_vars

\* ------------------------------------------------- a log of several lines

\* the log gets a further line
NewLine ==
    /\ Composing
    /\ Len(lines) < MaxLines
    /\ LastLine # << >>
    /\ lines' = Append(lines, << >>)
    /\ UNCHANGED <<edits, records, entries, warnings, malformed, csv>>
    /\ UNCHANGED rest

\* a log of up to MaxLines template lines, and the three operations on it
NextLog ==
    \/ \E t \in 1..Len(Templates) : WriteLine(t)
    \/ NewLine
    \/ Calls

SpecLog == Init /\ [][NextLog]_vars

\* ------------------------------------------------- a list of many records

MaxRecords == 21

\* the records that may come next in a list of n records: any record first,
\* plain records after it
RecordChoices(n) == IF n = 0 THEN Records ELSE {PlainRecord(n + 1)}

ListClosed == LastLine # << >> /\ LastLine[Len(LastLine)] = "]"

InitList ==
    /\ lines = <<RelevanceStart>>
    /\ edits = 0
    /\ records = << >>
    /\ entries = NotCalled
    /\ warnings = NotCalled
    /\ malformed = NotCalled
    /\ csv = NotCalled
    /\ RestIdle

\* a further record is written to the list of the line
AppendRecord(r) ==
    /\ Composing
    /\ ~ListClosed
    /\ Len(records) < MaxRecords
    /\ lines' = WithLastLine(LastLine
                             \o (IF records = << >> THEN << >> ELSE <<",", SP>>)
                             \o RecText(r))
    /\ records' = Append(records, r)
    /\ UNCHANGED <<edits, entries, warnings, malformed, csv>>
    /\ UNCHANGED rest

\* the list of the line gets its closing bracket
CloseList ==
    /\ Composing
    /\ ~ListClosed
    /\ lines' = WithLastLine(LastLine \o <<"]">>)
    /\ UNCHANGED <<edits, records, entries, warnings, malformed, csv>>
    /\ UNCHANGED rest

ParseList == ListClosed /\ CallParseLogContent

ReportList == ListClosed /\ CallHandleMalformedEntries

\* one relevance warning with a list of up to MaxRecords records, and the
\* operations on it
NextList ==
    \/ \E r \in RecordChoices(Len(records)) : AppendRecord(r)
    \/ CloseList
    \/ ParseList
    \/ ReportList

SpecList == InitList /\ [][NextList]_vars

\* ------------------------------------------------------- format_as_csv

NL == "\n"

CR == "\r"

\* str(d) for a digit d
DigitChar(d) ==
    CASE d = 0 -> "0" [] d = 1 -> "1" [] d = 2 -> "2" [] d = 3 -> "3"
      [] d = 4 -> "4" [] d = 5 -> "5" [] d = 6 -> "6" [] d = 7 -> "7"
      [] d = 8 -> "8" [] d = 9 -> "9"

\* str(n) for a natural number n
RECURSIVE NatStr(_)
NatStr(n) ==
    IF n < 10 THEN <<DigitChar(n)>>
    ELSE Append(NatStr(n \div 10), DigitChar(n % 10))

\* the k low decimal digits of n, with leading zeros
RECURSIVE LowDigits(_, _)
LowDigits(n, k) ==
    IF k = 0 THEN << >>
    ELSE Append(LowDigits(n \div 10, k - 1), DigitChar(n % 10))

\* 10^k
RECURSIVE Pow10(_)
Pow10(k) == IF k = 0 THEN 1 ELSE 10 * Pow10(k - 1)

\* str(x) for the float x = n / 10^k in lowest form, and '' for None; the
\* numbers of the model need no exponent
FloatStr(x) ==
    IF x = <<"None">> THEN << >>
    ELSE LET n == x[1]
             k == x[2]
             mag == IF n < 0 THEN 0 - n ELSE n
         IN (IF n < 0 THEN <<"-">> ELSE << >>)
            \o NatStr(mag \div Pow10(k)) \o <<".">>
            \o (IF k = 0 THEN <<"0">> ELSE LowDigits(mag, k))

\* the text of an optional string field: '' for None
TextOrEmpty(t) == IF t = <<"None">> THEN << >> ELSE t

\* s.replace(a, b) for a one-character text a and a text b, the text taken
\* in two halves
RECURSIVE Replace1(_, _, _)
Replace1(s, a, b) ==
    IF s = << >> THEN << >>
    ELSE IF Len(s) = 1 THEN (IF s[1] = a THEN b ELSE s)
    ELSE Replace1(SubSeq(s, 1, Len(s) \div 2), a, b)
         \o Replace1(SubSeq(s, Len(s) \div 2 + 1, Len(s)), a, b)

\* the replacement with the carriage returns kept
CsvContentKeepsCR(document_content) == Replace1(document_content, NL, <<SP>>)

\* entry.document_content.replace('\n', ' ').replace('\r', '')
CsvContent(document_content) ==
    Replace1(Replace1(document_content, NL, <<SP>>), CR, << >>)

\* the column names given to csv.DictWriter
Fieldnames ==
    <<"document_content", "source_file", "similarity_score", "quality_score",
      "timestamp">>

\* the characters that make csv.writer quote a field
CsvSpecial == {",", Q2, NL, CR}

\* a field as csv.writer writes it: quoted, with its quotes doubled, when it
\* holds a special character
CsvField(text) ==
    IF \E i \in 1..Len(text) : text[i] \in CsvSpecial
    THEN <<Q2>> \o Replace1(text, Q2, <<Q2, Q2>>) \o <<Q2>>
    ELSE text

\* a row as csv.writer writes it: the fields, comma-separated, and "\r\n"
RECURSIVE CsvRow(_)
CsvRow(fields) ==
    IF Len(fields) = 1 THEN CsvField(fields[1]) \o <<CR, NL>>
    ELSE CsvField(fields[1]) \o <<",">> \o CsvRow(Tail(fields))

\* the row format_as_csv writes for an entry
EntryRow(entry) ==
    CsvRow(<<CsvContent(entry.document_content),
             TextOrEmpty(entry.source_file),
             FloatStr(entry.similarity_score),
             FloatStr(entry.quality_score),
             TextOrEmpty(entry.timestamp)>>)

RECURSIVE EntryRows(_)
EntryRows(es) ==
    IF es = << >> THEN << >> ELSE EntryRow(es[1]) \o EntryRows(Tail(es))

\* format_as_csv(entries)
FormatAsCsv(es) ==
    IF es = << >> THEN << >>
    ELSE CsvRow([i \in 1..Len(Fieldnames) |-> <<Fieldnames[i]>>])
         \o EntryRows(es)

MaxEntries == 2

\* the entries given to format_as_csv
FormatEntries ==
    [document_content : {<<LX>>, <<LX, NL, LY>>, <<CR, NL, LX, ",", Q2>>, << >>},
     source_file : {<<"None">>, <<LY>>, <<LY, ",", LX>>},
     similarity_score : {<<5, 1>>},
     quality_score : {<<"None">>},
     timestamp : {<<"None">>}]
    \cup [document_content : {<<LX>>},
          source_file : {<<LY>>},
          similarity_score : {<<5, 1>>, <<0 - 25, 3>>},
          quality_score : {<<"None">>, <<2, 0>>},
          timestamp : {<<"None">>, TimestampText}]

InitFormat ==
    /\ lines = << << >> >>
    /\ edits = 0
    /\ records = << >>
    /\ entries = [value |-> << >>, raised |-> FALSE, called |-> TRUE]
    /\ warnings = NotCalled
    /\ malformed = NotCalled
    /\ csv = NotCalled
    /\ RestIdle

\* the entry sequence gets a further entry
AddEntry(e) ==
    /\ ~csv.called
    /\ Len(entries.value) < MaxEntries
    /\ entries' = [entries EXCEPT !.value = Append(@, e)]
    /\ UNCHANGED <<lines, edits, records, warnings, malformed, csv>>
    /\ UNCHANGED rest

CallFormatAsCsv ==
    /\ ~csv.called
    /\ csv' = [value |-> FormatAsCsv(entries.value), raised |-> FALSE,
               called |-> TRUE]
    /\ UNCHANGED <<lines, edits, records, entries, warnings, malformed>>
    /\ UNCHANGED rest

\* an entry sequence of up to MaxEntries entries, and its rendering
NextFormat ==
    \/ \E e \in FormatEntries : AddEntry(e)
    \/ CallFormatAsCsv

SpecFormat == InitFormat /\ [][NextFormat]_vars

\* ------------------------------------------------------- format_as_json

None == <<"None">>

\* what json.dumps writes for a character of a string (ensure_ascii=False)
JsonEscape(c) ==
    CASE c = Q2 -> <<BS, Q2>>
      [] c = BS -> <<BS, BS>>
      [] c = NL -> <<BS, "n">>
      [] c = CR -> <<BS, "r">>
      [] OTHER -> <<c>>

RECURSIVE JsonEscapeAll(_)
JsonEscapeAll(text) ==
    IF text = << >> THEN << >>
    ELSE JsonEscape(text[1]) \o JsonEscapeAll(Tail(text))

\* a string written between quotes as it is
JsonStringRaw(text) == <<Q2>> \o text \o <<Q2>>

\* a string as json.dumps writes it
JsonString(text) == <<Q2>> \o JsonEscapeAll(text) \o <<Q2>>

\* an optional string: null for None
JsonOptString(t) == IF t = None THEN <<"null">> ELSE JsonString(t)

\* an optional float: null for None, else its repr
JsonFloat(x) == IF x = None THEN <<"null">> ELSE FloatStr(x)

\* the indentation of level n (indent=2)
Indent(n) == [i \in 1..n |-> SP]

\* the texts of a sequence, joined by sep
RECURSIVE JoinTexts(_, _)
JoinTexts(parts, sep) ==
    IF parts = << >> THEN << >>
    ELSE IF Len(parts) = 1 THEN parts[1]
    ELSE parts[1] \o sep \o JoinTexts(Tail(parts), sep)

\* the order in which _parse_metadata inserts its keys
MetadataOrder == <<KeySource, KeyId, KeySeq>>

\* the keys of a metadata dict, in insertion order
MetadataKeysOf(metadata) ==
    LET Has(k) == k \in DOMAIN metadata IN SelectSeq(MetadataOrder, Has)

\* a dict of strings as json.dumps writes it at indentation n
JsonDict(metadata, n) ==
    LET keys == MetadataKeysOf(metadata)
        Item(i) == Indent(n + 2) \o JsonString(<<keys[i]>>) \o <<":", SP>>
                   \o JsonString(metadata[keys[i]])
    IN IF keys = << >> THEN <<"{", "}">>
       ELSE <<"{", NL>> \o JoinTexts([i \in 1..Len(keys) |-> Item(i)], <<",", NL>>)
            \o <<NL>> \o Indent(n) \o <<"}">>

\* the keys of the dict format_as_json builds for an entry (lines 447-453)
JsonKeys ==
    <<"document_content", "metadata", "similarity_score", "quality_score",
      "timestamp", "source_file", "source_line">>

\* the values of that dict, as json.dumps writes them
JsonValues(entry) ==
    <<JsonString(entry.document_content),
      JsonDict(entry.metadata, 4),
      JsonFloat(entry.similarity_score),
      JsonFloat(entry.quality_score),
      JsonOptString(entry.timestamp),
      JsonOptString(entry.source_file),
      JsonString(entry.source_line)>>

\* the dict of an entry as json.dumps writes it, as an element of the list
JsonEntry(entry) ==
    LET values == JsonValues(entry)
        Item(i) == Indent(4) \o JsonString(<<JsonKeys[i]>>) \o <<":", SP>>
                   \o values[i]
    IN <<"{", NL>>
       \o JoinTexts([i \in 1..Len(JsonKeys) |-> Item(i)], <<",", NL>>)
       \o <<NL>> \o Indent(2) \o <<"}">>

\* format_as_json(entries): json.dumps(formatted_entries, indent=2,
\* ensure_ascii=False)
FormatAsJson(es) ==
    IF es = << >> THEN <<"[", "]">>
    ELSE <<"[", NL>>
         \o JoinTexts([i \in 1..Len(es) |-> Indent(2) \o JsonEntry(es[i])],
                      <<",", NL>>)
         \o <<NL, "]">>


\* ---------------------------------------------- generate_summary_report

\* x + y for two decimals <<n, k>> = n / 10^k
Plus(x, y) ==
    LET k == IF x[2] > y[2] THEN x[2] ELSE y[2]
    IN Norm(x[1] * Pow10(k - x[2]) + y[1] * Pow10(k - y[2]), k)

\* x < y
Less(x, y) == x[1] * Pow10(y[2]) < y[1] * Pow10(x[2])

\* sum(xs), from 0
RECURSIVE Sum(_)
Sum(xs) == IF xs = << >> THEN <<0, 0>> ELSE Plus(xs[1], Sum(Tail(xs)))

\* max(xs)
MaxOf(xs) ==
    xs[CHOOSE i \in 1..Len(xs) : \A j \in 1..Len(xs) : ~Less(xs[i], xs[j])]

\* the first element taken for the least
MinOfFirst(xs) == xs[1]

\* min(xs)
MinOf(xs) ==
    xs[CHOOSE i \in 1..Len(xs) : \A j \in 1..Len(xs) : ~Less(xs[j], xs[i])]

\* x / c for a decimal x and a count c, as the fraction <<num, den>>
Quotient(x, c) == <<x[1], Pow10(x[2]) * c>>

\* f"{q:.4f}" for the fraction q: the nearest numeral of four decimals (of
\* two equally near Python takes the one nearer to the binary value of q,
\* the even one when q is that value; no mean of the model lies so)
Fixed4(q) ==
    LET mag == IF q[1] < 0 THEN 0 - q[1] ELSE q[1]
        scaled == mag * 10000
        low == scaled \div q[2]
        rem == scaled % q[2]
        up == 2 * rem > q[2] \/ (2 * rem = q[2] /\ low % 2 = 1)
        r == IF up THEN low + 1 ELSE low
    IN (IF q[1] < 0 THEN <<"-">> ELSE << >>)
       \o NatStr(r \div 10000) \o <<".">> \o LowDigits(r, 4)

\* the decimals a quotient is written with, when it has at most this many
QuotientDigits == 4

\* str(q) for the fraction q: its decimal numeral when q has one of few
\* digits, and a mark of a longer numeral otherwise
FractionStr(q) ==
    LET exact == {j \in 0..QuotientDigits : (q[1] * Pow10(j)) % q[2] = 0}
        j == CHOOSE i \in exact : \A l \in exact : i <= l
    IN IF exact = {} THEN <<"long">>
       ELSE FloatStr(Norm((q[1] * Pow10(j)) \div q[2], j))

\* the values of a field over the entries, None left out
RECURSIVE Present(_)
Present(xs) ==
    IF xs = << >> THEN << >>
    ELSE (IF xs[1] = None THEN << >> ELSE <<xs[1]>>) \o Present(Tail(xs))

\* whether an optional string is false: None or empty
FalsyText(t) == t = None \/ t = << >>

\* whether an optional float is false: None or zero
FalsyFloat(x) == IF x = None THEN TRUE ELSE x[1] = 0

\* entry.source_file or "Unknown"
SourceOrUnknown(entry) ==
    IF FalsyText(entry.source_file) THEN <<"Unknown">> ELSE entry.source_file

\* the keys of source_counts in insertion order
RECURSIVE SourcesSeen(_, _)
SourcesSeen(es, seen) ==
    IF es = << >> THEN seen
    ELSE LET source == SourceOrUnknown(es[1])
         IN SourcesSeen(Tail(es),
                        IF \E i \in 1..Len(seen) : seen[i] = source THEN seen
                        ELSE Append(seen, source))

\* source_counts[source]
SourceCount(es, source) ==
    Cardinality({i \in 1..Len(es) : SourceOrUnknown(es[i]) = source})

\* the fixed message for no entries
NoEntriesMessage == <<"No relevance score entries found in the log.">>

\* the head of the report, down to "Entries by source file:" (lines 521-536)
ReportHead(es) ==
    LET scores == [i \in 1..Len(es) |-> es[i].similarity_score]
        quality_scores == Present([i \in 1..Len(es) |-> es[i].quality_score])
        avg_similarity == Quotient(Sum(scores), Len(scores))
        na == quality_scores = << >>
    IN <<NL, "Relevance Score Analysis Report", NL, "=x31", NL, NL,
         "Total entries found: ">> \o NatStr(Len(es))
       \o <<NL, "Average similarity score: ">> \o Fixed4(avg_similarity)
       \o <<NL, "Min similarity score: ">> \o Fixed4(Quotient(MinOf(scores), 1))
       \o <<NL, "Max similarity score: ">> \o Fixed4(Quotient(MaxOf(scores), 1))
       \o <<NL, NL, "Quality scores (when available):", NL,
            "Average quality score: ">>
       \o (IF na THEN <<"N/A">>
           ELSE FractionStr(Quotient(Sum(quality_scores), Len(quality_scores))))
       \o <<NL, "Min quality score: ">>
       \o (IF na THEN <<"N/A">> ELSE FloatStr(MinOf(quality_scores)))
       \o <<NL, "Max quality score: ">>
       \o (IF na THEN <<"N/A">> ELSE FloatStr(MaxOf(quality_scores)))
       \o <<NL, NL, "Entries by source file:", NL>>

\* the lines of the report that count the entries of each source (537-538)
ReportSources(es) ==
    LET seen == SourcesSeen(es, << >>)
        Item(i) == <<"-", SP>> \o seen[i] \o <<":", SP>>
                   \o NatStr(SourceCount(es, seen[i])) \o <<" entries", NL>>
    IN JoinTexts([i \in 1..Len(seen) |-> Item(i)], << >>)

\* the length of the content preview of a detailed entry
ReportPreviewLen == 100

\* the lines of the report for entry i (lines 543-549)
ReportEntry(es, i) ==
    NatStr(i) \o <<".", " Source: ">> \o SourceOrUnknown(es[i])
    \o <<NL, "   Similarity Score: ">> \o FloatStr(es[i].similarity_score)
    \o <<NL, "   Quality Score: ">>
    \o (IF FalsyFloat(es[i].quality_score) THEN <<"N/A">>
        ELSE FloatStr(es[i].quality_score))
    \o <<NL, "   Content Preview: ">>
    \o TakeChars(es[i].document_content, ReportPreviewLen) \o Ellipsis
    \o <<NL, "   Timestamp: ">>
    \o (IF FalsyText(es[i].timestamp) THEN <<"N/A">> ELSE es[i].timestamp)
    \o <<NL, NL>>

\* generate_summary_report(entries)
GenerateSummaryReport(es) ==
    IF es = << >> THEN NoEntriesMessage
    ELSE ReportHead(es) \o ReportSources(es)
         \o <<NL, "Detailed entries:", NL, "-x80", NL>>
         \o JoinTexts([i \in 1..Len(es) |-> ReportEntry(es, i)], << >>)


\* --------------------------------------------------------- save_results

\* a character outside ASCII, and its bytes in UTF-8 and in GBK
ZH == "zh"

ZhUtf8 == "zh:utf-8"

ZhGbk == "zh:gbk"

\* a byte that starts no character, in UTF-8 or in GBK
BadByte == "0xff"

\* os.linesep (the model is of a platform whose line separator is "\n")
LineSep == <<NL>>

\* str.encode('utf-8')
Utf8Encode(text) == Replace1(text, ZH, <<ZhUtf8>>)

\* what f.write(text) leaves in a file opened with open(path, 'w',
\* encoding='utf-8'): every "\n" written as os.linesep, the text encoded
WriteText(text) == Utf8Encode(Replace1(text, NL, LineSep))

\* the decoding of bytes under an encoding: ok is FALSE where Python raises
\* UnicodeDecodeError
Decode(data, encoding) ==
    LET bad == IF encoding = "utf-8" THEN {ZhGbk, BadByte}
               ELSE {ZhUtf8, BadByte}
        good == IF encoding = "utf-8" THEN ZhUtf8 ELSE ZhGbk
    IN IF \E i \in 1..Len(data) : data[i] \in bad
       THEN [ok |-> FALSE, text |-> << >>]
       ELSE [ok |-> TRUE, text |-> Replace1(data, good, <<ZH>>)]

\* output_format.lower()
Lower(output_format) ==
    CASE output_format = "JSON" -> "json"
      [] output_format = "Csv" -> "csv"
      [] OTHER -> output_format

\* the formats save_results renders
SupportedFormats == {"json", "csv", "report"}

\* whether save_results opens the output file: if output_file
WritesTo(output_file) == ~FalsyText(output_file)

\* the rendering save_results makes before it looks at output_file
Render(es, format) ==
    CASE format = "json" -> FormatAsJson(es)
      [] format = "csv" -> FormatAsCsv(es)
      [] format = "report" -> GenerateSummaryReport(es)

\* save_results opening the output file before it looks at the format
SaveResultsOpenFirst(es, output_format, output_file, files) ==
    LET format == Lower(output_format)
        opened == IF WritesTo(output_file)
                     /\ files[output_file].kind # "dir"
                  THEN [files EXCEPT ![output_file] = File(<< >>)]
                  ELSE files
    IN IF format \notin SupportedFormats
       THEN [value |-> << >>, raised |-> TRUE, error |-> "ValueError",
             fs |-> opened]
       ELSE IF ~WritesTo(output_file)
       THEN [value |-> Render(es, format), raised |-> FALSE, error |-> "",
             fs |-> files]
       ELSE IF files[output_file].kind = "dir"
       THEN [value |-> << >>, raised |-> TRUE, error |-> "IsADirectoryError",
             fs |-> files]
       ELSE [value |-> Render(es, format), raised |-> FALSE, error |-> "",
             fs |-> [files EXCEPT
                        ![output_file] = File(WriteText(Render(es, format)))]]

\* save_results(entries, output_format, output_file) on the files: what it
\* returns or that it raised, and the files it leaves
SaveResults(es, output_format, output_file, files) ==
    LET format == Lower(output_format)
    IN IF format \notin SupportedFormats
       THEN [value |-> << >>, raised |-> TRUE, error |-> "ValueError",
             fs |-> files]
       ELSE IF ~WritesTo(output_file)
       THEN [value |-> Render(es, format), raised |-> FALSE, error |-> "",
             fs |-> files]
       ELSE IF files[output_file].kind = "dir"
       THEN [value |-> << >>, raised |-> TRUE, error |-> "IsADirectoryError",
             fs |-> files]
       ELSE [value |-> Render(es, format), raised |-> FALSE, error |-> "",
             fs |-> [files EXCEPT
                        ![output_file] = File(WriteText(Render(es, format)))]]

\* ----------------------------------------- the renderings of an entry list

\* an entry with the fields of RelevanceScoreEntry
Entry(content, metadata, score, quality, source_line, timestamp, source) ==
    [document_content |-> content, metadata |-> metadata,
     similarity_score |-> score, quality_score |-> quality,
     source_line |-> source_line, timestamp |-> timestamp,
     source_file |-> source]

NoMetadata == [k \in {} |-> << >>]

SourceMetadata == [k \in {KeySource} |-> <<LY>>]

FullMetadata ==
    [k \in MetadataKeys |->
        IF k = KeySource THEN <<LY, Q2>> ELSE IF k = KeyId THEN <<LX>>
        ELSE <<"1">>]

\* a content that reads as the end of a JSON string, the end of an object
\* and the start of another with a similarity_score
ClosingContent ==
    <<LX, Q2, NL, "}", ",", "{", Q2, "similarity_score", Q2, ":", "2", ",",
      Q2, LY, Q2, ":", Q2>>

\* the entries an entry list may start with
RenderEntries ==
    {Entry(c, NoMetadata, <<5, 1>>, None, <<LX>>, None, None) :
        c \in {<<LX>>, ClosingContent, <<LX, BS, CR, NL, ZH, BS>>, <<XRun>>}}
    \cup {Entry(<<LX>>, FullMetadata, sc, q, <<LY, Q2, BS>>, TimestampText,
                <<LY, Q2>>) :
            sc \in {<<0 - 25, 2>>, <<2, 0>>}, q \in {None, <<0, 0>>, <<25, 1>>}}
    \cup {Entry(<<LX>>, SourceMetadata, <<1, 1>>, None, <<LX>>,
                << >>, << >>)}

\* the entries that may come next in a list of n entries
RenderChoices(n) ==
    IF n = 0 THEN RenderEntries
    ELSE IF n = 1
    THEN {Entry(ClosingContent, NoMetadata, <<5, 1>>, None, <<LX>>, None, None),
          Entry(<<LX>>, FullMetadata, <<2, 0>>, <<25, 1>>, <<LY, Q2, BS>>,
                TimestampText, <<LY, Q2>>),
          Entry(<<LX>>, SourceMetadata, <<1, 1>>, None, <<LX>>, << >>, << >>)}
    ELSE {Entry(<<LX>>, SourceMetadata, sc, None, <<LX>>, None, <<LY>>) :
            sc \in {<<0 - 15, 2>>, <<1, 1>>}}

MaxGiven == 3

\* the values save_results is given as output_format and as output_file
Formats == {"JSON", "Csv", "report", "xml"}

OutputFiles == {None, << >>, OutPath}

\* a path gets a file or a directory
PutFile(p, f) ==
    /\ fs[p] = Missing
    /\ ~rendered.called /\ ~batch.called /\ ~csv.called
    /\ fs' = [fs EXCEPT ![p] = f]
    /\ UNCHANGED <<lines, edits, records, entries, warnings, malformed, csv,
                   rendered, batch, loop, slots>>

\* the entry list gets a further entry
GiveEntry(e) ==
    /\ ~rendered.called /\ ~csv.called
    /\ Len(entries.value) < MaxGiven
    /\ entries' = [entries EXCEPT !.value = Append(@, e)]
    /\ UNCHANGED <<lines, edits, records, warnings, malformed, csv, rendered,
                   fs, batch, loop, slots>>

CallFormatAsJson ==
    /\ ~rendered.called /\ ~csv.called
    /\ rendered' = [value |-> FormatAsJson(entries.value), raised |-> FALSE,
                    called |-> TRUE, op |-> "format_as_json"]
    /\ UNCHANGED <<lines, edits, records, entries, warnings, malformed, csv,
                   fs, batch, loop, slots>>

CallGenerateSummaryReport ==
    /\ ~rendered.called /\ ~csv.called
    /\ rendered' = [value |-> GenerateSummaryReport(entries.value),
                    raised |-> FALSE, called |-> TRUE,
                    op |-> "generate_summary_report"]
    /\ UNCHANGED <<lines, edits, records, entries, warnings, malformed, csv,
                   fs, batch, loop, slots>>

CallSaveResults(output_format, output_file) ==
    /\ ~rendered.called /\ ~csv.called
    /\ LET r == SaveResults(entries.value, output_format, output_file, fs)
       IN /\ rendered' = [value |-> r.value, raised |-> r.raised,
                          called |-> TRUE, op |-> "save_results",
                          error |-> r.error, output_format |-> output_format,
                          output_file |-> output_file, before |-> fs]
          /\ fs' = r.fs
    /\ UNCHANGED <<lines, edits, records, entries, warnings, malformed, csv,
                   batch, loop, slots>>

RenderCsv == ~rendered.called /\ CallFormatAsCsv

\* an entry list of up to MaxGiven entries, an output path that may exist,
\* and the renderings of the list
NextRender ==
    \/ \E e \in RenderChoices(Len(entries.value)) : GiveEntry(e)
    \/ \E f \in {File(<<LX>>), Directory} : PutFile(OutPath, f)
    \/ CallFormatAsJson
    \/ RenderCsv
    \/ CallGenerateSummaryReport
    \/ \E fmt \in Formats, file \in OutputFiles : CallSaveResults(fmt, file)

SpecRender == InitFormat /\ [][NextRender]_vars


\* ------------------------------------------------------ process_log_file

\* log_content.split('\n')
RECURSIVE SplitLines(_)
SplitLines(text) ==
    LET p == IndexOf(text, NL, 0)
    IN IF p = -1 THEN <<text>>
       ELSE <<Slice(text, 0, p)>> \o SplitLines(Slice(text, p + 1, Len(text)))

\* what f.read() gives for decoded text of a file opened with open(path,
\* 'r'): "\r\n" and "\r" read as "\n"
UniversalNewlines(text) == Replace1(Replace2(text, CR, NL), CR, <<NL>>)

\* open(file_path, 'r', encoding=encoding) and f.read() on a file that is
\* there: ok is FALSE where read() raises UnicodeDecodeError
ReadText(data, encoding) ==
    LET decoded == Decode(data, encoding)
    IN [ok |-> decoded.ok, text |-> UniversalNewlines(decoded.text)]

\* process_log_file with a fallback whose UnicodeDecodeError is not caught
ProcessLogFileRaising(file_path, files) ==
    LET f == files[file_path]
        first == ReadText(f.data, "utf-8")
        second == ReadText(f.data, "gbk")
        log_content == IF first.ok THEN first.text ELSE second.text
    IN IF f.kind = "missing" THEN [value |-> << >>, raised |-> FALSE]
       ELSE IF f.kind = "dir" THEN [value |-> << >>, raised |-> FALSE]
       ELSE IF ~first.ok /\ ~second.ok THEN [value |-> << >>, raised |-> TRUE]
       ELSE [value |-> Only({ParseLogContent(split).value :
                                split \in {SplitLines(log_content)}}),
             raised |-> FALSE]

\* process_log_file(file_path) on files that do not change during the call:
\* FileNotFoundError gives [] (line 595), the error of opening a directory
\* gives [] (line 607), a text that is not UTF-8 is read again as GBK (line
\* 598) and gives [] when it is not GBK either (line 604); the text read,
\* under the one encoding or the other, goes to parse_log_content
ProcessLogFile(file_path, files) ==
    LET f == files[file_path]
        first == ReadText(f.data, "utf-8")
        second == ReadText(f.data, "gbk")
        log_content == IF first.ok THEN first.text ELSE second.text
    IN IF f.kind = "missing" THEN [value |-> << >>, raised |-> FALSE]
       ELSE IF f.kind = "dir" THEN [value |-> << >>, raised |-> FALSE]
       ELSE IF ~first.ok /\ ~second.ok THEN [value |-> << >>, raised |-> FALSE]
       ELSE [value |-> Only({ParseLogContent(split).value :
                                split \in {SplitLines(log_content)}}),
             raised |-> FALSE]

\* -------------------------------------------- process_multiple_log_files

\* the for loop over file_paths from index i on: all_entries, the paths
\* handed to process_log_file so far, and whether an exception left the loop
RECURSIVE FilesLoop(_, _, _, _, _)
FilesLoop(file_paths, i, all_entries, processed, files) ==
    IF i > Len(file_paths)
    THEN [value |-> all_entries, raised |-> FALSE, processed |-> processed]
    ELSE Only({IF r.raised
               THEN [value |-> << >>, raised |-> TRUE,
                     processed |-> Append(processed, file_paths[i])]
               ELSE FilesLoop(file_paths, i + 1, all_entries \o r.value,
                              Append(processed, file_paths[i]), files) :
                  r \in {ProcessLogFile(file_paths[i], files)}})

\* process_multiple_log_files(file_paths)
ProcessMultipleLogFiles(file_paths, files) ==
    FilesLoop(file_paths, 1, << >>, << >>, files)

\* ------------------------------------------------- process_log_directory

\* the default of file_pattern
DefaultPattern == <<"*", ".log">>

\* the extensions looked for beside the default pattern
ExtraExtensions == <<".txt", ".out", ".log">>

\* a name glob does not match with a pattern that starts with "*"
Hidden(name) == name[1] = "."

\* fnmatch of a name with a pattern "*<ext>"
Matches(name, file_pattern) ==
    /\ file_pattern[1] = "*"
    /\ name[Len(name)] = file_pattern[2]
    /\ ~Hidden(name)

\* a set as a list, in some order
ListOf(S) ==
    CHOOSE f \in [1..Cardinality(S) -> S] :
        \A i, j \in 1..Cardinality(S) : f[i] = f[j] => i = j

\* glob.glob(os.path.join(directory_path, file_pattern)): the paths of the
\* directory, files or directories, whose names match
Glob(directory_path, file_pattern, files) ==
    ListOf({Join(directory_path, n) : n \in
               {n \in Names : /\ files[Join(directory_path, n)] # Missing
                              /\ Matches(n, file_pattern)}})

\* the paths found before duplicates are removed (lines 645-652)
FoundPaths(directory_path, file_pattern, files) ==
    Glob(directory_path, file_pattern, files)
    \o (IF file_pattern = DefaultPattern
        THEN Glob(directory_path, <<"*", ExtraExtensions[1]>>, files)
             \o Glob(directory_path, <<"*", ExtraExtensions[2]>>, files)
             \o Glob(directory_path, <<"*", ExtraExtensions[3]>>, files)
        ELSE << >>)

\* the found paths kept as they are, in every order
ListWithDuplicates(file_paths) ==
    {[i \in 1..Len(file_paths) |-> file_paths[f[i]]] :
        f \in {g \in [1..Len(file_paths) -> 1..Len(file_paths)] :
                  \A i, j \in 1..Len(file_paths) : g[i] = g[j] => i = j}}

\* list(set(file_paths)): the lists it may be, the order of a set being
\* any
ListOfSet(file_paths) ==
    LET S == {file_paths[i] : i \in 1..Len(file_paths)}
    IN {f \in [1..Cardinality(S) -> S] :
           \A i, j \in 1..Cardinality(S) : f[i] = f[j] => i = j}

\* ------------------------------------------------- a directory of logs

\* a record with source y and the score
ScoredList(score) ==
    RelevanceStart \o Rec(Q1, <<LX>>, MetaSource, score) \o <<"]">>

\* a UTF-8 log of three lines, the first ended by "\r\n", with two warnings
Utf8Log ==
    ScoredList(<<"0", ".", "5">>) \o <<CR, NL, LX, SP, LY, NL>>
        \o RelevanceStart \o Rec(Q1, <<ZhUtf8>>, MetaSource, <<"1">>)
        \o <<"]">>

\* a GBK log of one line that ends with "\n"
GbkLog == <<ZhGbk, SP>> \o ScoredList(<<"2">>) \o <<NL>>

\* a log that is neither UTF-8 nor GBK
BadLog == <<BadByte, SP>> \o ScoredList(<<"2", "5">>)

\* what each name of the directory may be
FileChoices(name) ==
    CASE name = <<"a", ".log">> -> {File(Utf8Log), File(BadLog), Directory}
      [] name = <<"b", ".txt">> -> {File(GbkLog)}
      [] name = <<"e", ".out">> -> {File(ScoredList(<<"-", "0", ".", "2", "5">>))}
      [] name = <<".", "h", ".log">> -> {File(ScoredList(<<".", "5">>))}
      [] OTHER -> {File(ScoredList(<<"5">>))}

\* the lists process_multiple_log_files is given
PathLists ==
    {<<Join(LogDir, <<"a", ".log">>), Join(LogDir, <<"b", ".txt">>),
       Join(LogDir, <<"e", ".out">>)>>,
     <<Join(LogDir, <<"e", ".out">>), Join(LogDir, <<"a", ".log">>),
       Join(LogDir, <<"e", ".out">>)>>,
     <<Join(LogDir, <<"a", ".log">>), Join(LogDir, <<"c", ".csv">>),
       Join(LogDir, <<"b", ".txt">>), Join(LogDir, <<"e", ".out">>)>>,
     << >>}

\* the patterns process_log_directory is given
Patterns == {DefaultPattern, <<"*", ".txt">>}

\* the loop over the paths, for the one operation or the other
RunBatch(op, file_pattern, given, file_paths) ==
    /\ ~batch.called
    /\ \E r \in {ProcessMultipleLogFiles(file_paths, fs)} :
           batch' = [value |-> r.value, raised |-> r.raised, called |-> TRUE,
                     op |-> op, file_paths |-> given,
                     file_pattern |-> file_pattern, processed |-> r.processed]
    /\ UNCHANGED <<lines, edits, records, entries, warnings, malformed, csv,
                   rendered, fs, loop, slots>>

\* the calls of the two operations: process_multiple_log_files with a list,
\* process_log_directory with a pattern, and the list of paths each runs on
BatchCalls ==
    {[op |-> "process_multiple_log_files", file_pattern |-> << >>,
      given |-> file_paths, file_paths |-> file_paths] :
        file_paths \in PathLists}
    \cup UNION {{[op |-> "process_log_directory", file_pattern |-> file_pattern,
                  given |-> << >>, file_paths |-> file_paths] :
                    file_paths \in ListOfSet(FoundPaths(LogDir, file_pattern,
                                                        fs))} :
                  file_pattern \in Patterns}

\* process_multiple_log_files(file_paths) or process_log_directory(LogDir,
\* file_pattern)
CallBatch(call) ==
    RunBatch(call.op, call.file_pattern, call.given, call.file_paths)

\* a directory whose names get files or directories, and the two batch
\* operations on it
NextFiles ==
    \/ \E n \in Names : \E f \in FileChoices(n) : PutFile(Join(LogDir, n), f)
    \/ \E call \in BatchCalls : CallBatch(call)

SpecFiles == Init /\ [][NextFiles]_vars


\* ------------------------------- the record loop, one pass at a time

\* the markers of the longest run of markers without envelope
MaxMarkers == 21

\* a list of n plain records, with its brackets
PlainList(n) == <<"[">> \o ListBody([i \in 1..n |-> PlainRecord(i)]) \o <<"]">>

\* n markers whose envelopes are not closed, each followed by a comma
OpenMarkers(n) == [i \in 1..(2 * n) |-> IF i % 2 = 1 THEN DOC ELSE ","]

\* a tab
TAB == "\t"

\* (Document(page_content='x', metadata={'source': 'y'})
OpenRecord == <<"(", DOC, PC, Q1, LX, Q1, ",", SP, MD>> \o MetaSource \o <<")">>

\* list texts with one envelope and what stands between it and the end of
\* the list: a run of spaces, commas and parens before a signed fraction; a
\* letter where the score should be, before a record; a tab before the
\* score; a numeral with two dots; a numeral that ends with its dot
ScoreTexts ==
    {<<"[">> \o OpenRecord
         \o <<SP, ",", ",", ")", SP, ")", SP, "-", ".", "5", ")", "]">>,
     <<"[">> \o OpenRecord \o <<",", SP, LX, ")", ",", SP>>
         \o Tail(PlainList(1)),
     <<"[">> \o OpenRecord \o <<",", TAB, "0", ".", "5", ")", "]">>,
     <<"[">> \o OpenRecord
         \o <<",", SP, "+", "2", ".", "5", ".", "1", ")", "]">>,
     <<"[">> \o OpenRecord \o <<",", SP, "1", ".", ")", "]">>}

\* list texts whose first envelope lacks a field, before a plain record:
\* page_content alone, metadata alone, page_content without quotes, and a
\* page_content that holds the text metadata={}
FieldTexts ==
    {<<"[", "(", DOC, PC, Q1, LX, Q1, ")", ",", SP, "0", ".", "5", ")", ",", SP>>
         \o Tail(PlainList(1)),
     <<"[", "(", DOC, MD>> \o MetaSource \o <<")", ",", SP, "2", ")", ",", SP>>
         \o Tail(PlainList(1)),
     <<"[", "(", DOC, PC, LX, ",", SP, MD>> \o MetaSource
         \o <<")", ",", SP, "2", ")", ",", SP>> \o Tail(PlainList(1)),
     <<"[", "(", DOC, PC, Q1, MD, "{", "}", Q1, ")", ",", SP, "1", ")", ",", SP>>
         \o Tail(PlainList(1))}

\* (Document(page_content=<q>content<q>, metadata={'source': 'y'}), 0.5)
\* as a list
QuotedList(q, content) ==
    <<"[">> \o Rec(q, content, MetaSource, <<"0", ".", "5">>) \o <<"]">>

\* list texts of one record whose payload holds a quote: x\'y in single
\* quotes, x'y in double quotes, and plain x in double quotes
QuoteTexts ==
    {QuotedList(Q1, <<LX, BS, Q1, LY>>),
     QuotedList(Q2, <<LX, Q1, LY>>),
     QuotedList(Q2, <<LX>>)}

\* the list texts _parse_document_list is given
LoopTexts ==
    {PlainList(0), PlainList(2), PlainList(MaxRecords),
     \* markers without envelope only
     <<"[">> \o OpenMarkers(MaxMarkers) \o <<"]">>,
     \* a marker without envelope before a full list
     <<"[">> \o OpenMarkers(1) \o Tail(PlainList(MaxRecords - 1)),
     \* as many markers without envelope as the cap allows records, and more
     \* records than that
     <<"[">> \o OpenMarkers(MaxMarkers - 1) \o Tail(PlainList(MaxRecords)),
     \* a closed envelope without score, one inside a string, and a record
     <<"[", DOC, PC, Q1, LX, Q1, ")", ",", SP, Q1, DOC, Q1, ",", SP>>
         \o Tail(PlainList(1))}
    \cup ScoreTexts \cup FieldTexts \cup QuoteTexts

\* _parse_document_list is entered with a list text (lines 183-184)
EnterLoop(s) ==
    /\ loop.pc = "idle"
    /\ loop' = [pc |-> "loop", s |-> s, pos |-> 0, iteration |-> 0,
                passes |-> 0, results |-> << >>]
    /\ UNCHANGED <<lines, edits, records, entries, warnings, malformed, csv,
                   rendered, fs, batch, slots>>

\* one pass of the while loop (lines 185-269): the break when no marker is
\* left, or a pass that moves pos; passes counts the passes that go round
LoopPass ==
    /\ loop.pc = "loop"
    /\ loop.pos < Len(loop.s) /\ loop.iteration < IterationCap
    /\ LET step == DocLoopStep(loop.s, loop.pos)
       IN loop' = IF step.done THEN [loop EXCEPT !.pc = "done"]
                  ELSE [loop EXCEPT
                           !.pos = step.pos,
                           !.iteration = IF step.counted THEN @ + 1 ELSE @,
                           !.passes = @ + 1,
                           !.results = @ \o step.out]
    /\ UNCHANGED <<lines, edits, records, entries, warnings, malformed, csv,
                   rendered, fs, batch, slots>>

\* the condition of the while loop is false (line 185)
LoopExit ==
    /\ loop.pc = "loop"
    /\ ~(loop.pos < Len(loop.s) /\ loop.iteration < IterationCap)
    /\ loop' = [loop EXCEPT !.pc = "done"]
    /\ UNCHANGED <<lines, edits, records, entries, warnings, malformed, csv,
                   rendered, fs, batch, slots>>

\* _parse_document_list on a list text, pass by pass
NextLoop ==
    \/ \E s \in LoopTexts : EnterLoop(s)
    \/ LoopPass
    \/ LoopExit

SpecLoop == Init /\ [][NextLoop]_vars

\* the condition under which LoopPass is enabled
PassEnabled ==
    /\ loop.pc = "loop"
    /\ loop.pos < Len(loop.s) /\ loop.iteration < IterationCap

\* the loop runs on, no pass waiting for anything: weak fairness of the
\* exit and of the pass, the latter with its enabling condition written out
SpecLoopFair ==
    /\ SpecLoop
    /\ WF_vars(LoopExit)
    /\ ([]<>(~PassEnabled) \/ []<><<LoopPass>>_vars)


\* --------------------------------------- one record, field by field

\* 'key': value, as it stands in a metadata block
Item(key, value) == <<Q1, key, Q1, ":", SP>> \o value

\* 'text'
Quoted(text) == <<Q1>> \o text \o <<Q1>>

\* a metadata block of the items, separated by ", "
RECURSIVE Block(_)
Block(items) ==
    IF items = << >> THEN <<"{", "}">>
    ELSE IF Len(items) = 1 THEN <<"{">> \o items[1] \o <<"}">>
    ELSE <<"{">> \o items[1] \o <<",", SP>> \o Tail(Block(Tail(items)))

\* a text with its single quotes written as double quotes
DoubleQuoted(text) == [i \in 1..Len(text) |-> IF text[i] = Q1 THEN Q2 ELSE text[i]]

\* the metadata blocks of the records: the three keys in turn and together,
\* other keys, an empty value, a quoted sequence number, a key given twice,
\* a key name as a value, no space and two spaces after the colon, and
\* blocks written with double quotes
FieldMetas ==
    {MetaSource,
     MetaFull,
     Block(<< >>),
     Block(<<Item(LX, Quoted(<<LY>>))>>),
     Block(<<Item(KeyId, Quoted(<<LX>>)), Item(LX, Quoted(<<LY>>))>>),
     Block(<<Item(KeySeq, <<"1", "2">>)>>),
     Block(<<Item(KeySource, Quoted(<< >>)), Item(KeyId, Quoted(<<LX>>))>>),
     Block(<<Item(KeySeq, Quoted(<<"1">>))>>),
     Block(<<Item(KeySource, Quoted(<<LY>>)), Item(KeySource, Quoted(<<LX>>))>>),
     Block(<<Item(LX, Quoted(<<KeySource>>)), Item(KeyId, Quoted(<<LY>>))>>),
     Block(<<<<Q1, KeySource, Q1, ":", Q1, LX, SP, LY, Q1>>>>),
     Block(<<<<Q1, KeyId, Q1, ":", SP, SP, Q1, LY, Q1>>>>),
     DoubleQuoted(MetaSource),
     DoubleQuoted(MetaFull),
     Block(<<Item(KeySource, <<Q2, LY, Q2>>), Item(KeyId, Quoted(<<LX>>))>>)}

\* 'quality_score': text
QualityItem(text) == <<Q1, KeyQuality, Q1, ":", SP>> \o text

\* the payloads of the records: a letter, and texts with the quality key
\* followed by 2.5, by 2.5 and the period of a sentence, by a letter, by a
\* lone dot, and by a quoted letter before the key comes again with a 2
FieldContents ==
    {<<LX>>,
     QualityText,
     QualityText \o <<".">>,
     QualityItem(<<LX>>),
     QualityItem(<<".">>),
     QualityItem(Quoted(<<LX>>)) \o <<SP>> \o QualityItem(<<"2">>)}

\* the records: every payload, in double quotes, with every metadata block
FieldRecords ==
    {[q |-> Q2, content |-> c, meta |-> m, score |-> <<"0", ".", "5">>,
      val |-> <<5, 1>>] : c \in FieldContents, m \in FieldMetas}

\* a relevance warning with the one record r is written to the log
WriteRecord(r) ==
    /\ Composing
    /\ records = << >>
    /\ records' = <<r>>
    /\ lines' = <<RelevanceStart \o RecText(r) \o <<"]">>>>
    /\ UNCHANGED <<edits, entries, warnings, malformed, csv>>
    /\ UNCHANGED rest

ParseRecord == records # << >> /\ CallParseLogContent

\* one relevance warning with one record, and parse_log_content on it
NextFields ==
    \/ \E r \in FieldRecords : WriteRecord(r)
    \/ ParseRecord

SpecFields == Init /\ [][NextFields]_vars

\* ------------------------------------------- the lines, each by itself

\* the lines no worker has taken yet
Untaken == (1..Len(lines)) \ DOMAIN slots

\* the log gets a template line as its last line while no line is taken
ComposeLine(t) == DOMAIN slots = {} /\ WriteLine(t)

\* the log gets a further line while no line is taken
ComposeNewLine == DOMAIN slots = {} /\ NewLine

\* the body of the loop of parse_log_content (lines 72-77) is run on line i
\* by itself
ProcessLine(i) ==
    /\ i \in Untaken
    /\ LastLine # << >>
    /\ slots' = [k \in DOMAIN slots \cup {i} |->
                    IF k = i THEN ParseLine(lines[i], i).out ELSE slots[k]]
    /\ UNCHANGED <<lines, edits, records, entries, warnings, malformed, csv,
                   rendered, fs, batch, loop>>

\* parse_log_content is called on the whole buffer
ParseBuffer == LastLine # << >> /\ CallParseLogContent

\* a log of up to MaxLines template lines, its lines processed one by one in
\* any order, and parse_log_content on the whole of it at any moment
NextLines ==
    \/ \E t \in 1..Len(Templates) : ComposeLine(t)
    \/ ComposeNewLine
    \/ \E i \in 1..Len(lines) : ProcessLine(i)
    \/ ParseBuffer

SpecLines == Init /\ [][NextLines]_vars


\* ------------------------------------------------------------ the claims

\* the entries returned for the marker at position p of the line
EntriesAt(p) ==
    {k \in 1..Len(entries.value) : entries.value[k].doc_start = p}

\* the list of the line was written from records and parsed
ListParsed ==
    /\ entries.called
    /\ ListClosed
    /\ LastLine = RelevanceStart \o ListBody(records) \o <<"]">>

\* a record with quoted page_content, a metadata block and a numeric score
WellFormed(r) == r.val # <<"None">>

\* C1: a line holding the relevance warning and a balanced list of N
\* well-formed records yields exactly N entries, in source order, the i-th
\* with the i-th record's score as its similarity_score.
C1_OneEntryPerRecord ==
    (ListParsed /\ \A i \in 1..Len(records) : WellFormed(records[i])) =>
        /\ Len(entries.value) = Len(records)
        /\ \A i \in 1..Len(records) :
             /\ entries.value[i].similarity_score = records[i].val
             /\ entries.value[i].doc_start = MarkerPos(records, i)

\* the payload of the record holds "]", ")" or the other quote
HasDelimiter(r) ==
    \E k \in 1..Len(r.content) : r.content[k] \in {"]", ")", OtherQuote(r.q)}

\* where the envelope of record i of the list ends in the line
EnvelopeEnd(rs, i) ==
    MarkerPos(rs, i) + 1 + 2 + Len(rs[i].content) + 4 + Len(rs[i].meta) + 1

\* C2: a record whose quoted page_content holds "]", ")" or the other
\* quote, followed by a metadata block and a score, yields exactly one entry
\* whose document_content is the whole payload (its preview when the payload
\* is longer than the preview length), and neither the extent of the list nor
\* that of the envelope is changed by the delimiters inside the string.
C2_InStringDelimiters ==
    ListParsed =>
        \A i \in 1..Len(records) :
            (HasDelimiter(records[i]) /\ WellFormed(records[i])) =>
                LET start_pos == Len(RelevanceStart) - 1
                    doc_list_str == Slice(LastLine, start_pos, Len(LastLine))
                    list == ExtractBracketScan(LastLine, start_pos)
                    envelope == DocParenScan(doc_list_str,
                                             MarkerPos(records, i) - start_pos)
                IN /\ Cardinality(EntriesAt(MarkerPos(records, i))) = 1
                   /\ \A k \in EntriesAt(MarkerPos(records, i)) :
                        entries.value[k].document_content
                            = Preview(records[i].content)
                   /\ list.bracket_count = 0
                   /\ list.pos = Len(LastLine)
                   /\ envelope.paren_count = 0
                   /\ envelope.doc_end + start_pos = EnvelopeEnd(records, i)

\* the one record of the list is Document(page_content='c',
\* metadata={'source': 's'}) with a score, c holding no quote, no backslash
\* and no quality_score key
C7_Record ==
    /\ ListParsed
    /\ Len(records) = 1
    /\ records[1].meta = MetaSource
    /\ WellFormed(records[1])
    /\ \A k \in 1..Len(records[1].content) :
         records[1].content[k] \notin {Q1, Q2, BS, KeyQuality}

\* the line yields exactly one entry, with the fields of the record
C7_Entry ==
    /\ Len(entries.value) = 1
    /\ entries.value[1].document_content = records[1].content
    /\ DOMAIN entries.value[1].metadata = {KeySource}
    /\ entries.value[1].metadata[KeySource] = <<LY>>
    /\ entries.value[1].source_file = <<LY>>
    /\ entries.value[1].similarity_score = records[1].val
    /\ entries.value[1].quality_score = <<"None">>
    /\ entries.value[1].source_line = LastLine

C8_ScoreFromNumeral ==
    ListParsed =>
        /\ \A k \in 1..Len(entries.value) :
             \E i \in 1..Len(records) :
                /\ entries.value[k].doc_start = MarkerPos(records, i)
                /\ WellFormed(records[i])
                /\ entries.value[k].similarity_score = records[i].val
        /\ \A i \in 1..Len(records) :
             ~WellFormed(records[i]) => EntriesAt(MarkerPos(records, i)) = {}

\* a list whose first record has no score, and whose later ones have, was
\* parsed
C8_Witness ==
    /\ ListParsed
    /\ Len(records) > 1
    /\ ~WellFormed(records[1])
    /\ Len(entries.value) = Len(records) - 1

\* the three operations have returned
AllCalled == entries.called /\ warnings.called /\ malformed.called

EntriesOfLine(k) ==
    {i \in 1..Len(entries.value) : entries.value[i].line_num = k}

WarningsOfLine(k) ==
    {i \in 1..Len(warnings.value) : warnings.value[i].line_number = k}

ReportsOfLine(k) ==
    {i \in 1..Len(malformed.value) : malformed.value[i].line_number = k}

\* the marker at position p of the line has no matching ")" before the end
\* of the text
TruncatedAt(line, p) ==
    /\ At(line, p) = DOC
    /\ DocParenScan(line, p).paren_count > 0

\* C3: for a line that holds a truncated record (a "Document(" marker with
\* no matching ")" before the end of the text), parse_log_content returns
\* without raising and with no entry for that record, and
\* handle_malformed_entries reports the line.
C3_TruncatedReported ==
    AllCalled =>
        \A k \in 1..Len(lines) :
            \A p \in 0..(Len(lines[k]) - 1) :
                TruncatedAt(lines[k], p) =>
                    /\ ~entries.raised
                    /\ \A i \in EntriesOfLine(k) :
                         entries.value[i].doc_start # p
                    /\ ReportsOfLine(k) # {}

\* the line holds one of the three trigger substrings
HasTrigger(line) ==
    \/ Contains(line, RelevancePhrase)
    \/ Contains(line, ThresholdPhrase)
    \/ Contains(line, <<DOC>>)

\* C4: handle_malformed_entries reports every line that holds one of the
\* three trigger substrings (the relevance-warning phrase, the
\* threshold-warning phrase, the "Document(" marker) and from which no list
\* with a record and no threshold value is extracted.
C4_TriggerReported ==
    AllCalled =>
        \A k \in 1..Len(lines) :
            (/\ HasTrigger(lines[k])
             /\ EntriesOfLine(k) = {}
             /\ WarningsOfLine(k) = {}) => ReportsOfLine(k) # {}

\* C5: a line reported as relevance_warning_no_docs has no entry, a line
\* reported as threshold_warning_malformed has no threshold warning, and a
\* line without a trigger substring is not reported.
C5_ReportsExclusive ==
    AllCalled =>
        \A i \in 1..Len(malformed.value) :
            LET m == malformed.value[i]
            IN /\ m.line_number \in 1..Len(lines)
               /\ m.source_line = lines[m.line_number]
               /\ m.type = "relevance_warning_no_docs" =>
                      /\ EntriesOfLine(m.line_number) = {}
                      /\ Contains(m.source_line, RelevancePhrase)
               /\ m.type = "threshold_warning_malformed" =>
                      /\ WarningsOfLine(m.line_number) = {}
                      /\ Contains(m.source_line, NoDocsPhrase)
               /\ m.type \in {"relevance_warning_no_docs",
                              "threshold_warning_malformed"}

\* a line with a list was reported for its list, and yields no entry
C5_Witness ==
    /\ AllCalled
    /\ Contains(LastLine, <<MD>>)
    /\ Contains(LastLine, <<"]">>)
    /\ \E i \in 1..Len(malformed.value) :
         malformed.value[i].type = "relevance_warning_no_docs"
    /\ entries.value = << >>

\* the decimal numeral of the line at position j: digits with an optional
\* fraction, or a fraction alone; empty when there is none
NumeralAt(line, j) ==
    LET d1 == SkipWhile(line, j, Digits)
        d2 == IF d1 < Len(line) /\ At(line, d1) = "."
              THEN SkipWhile(line, d1 + 1, Digits) ELSE d1
    IN IF d1 > j THEN Slice(line, j, d2)
       ELSE IF d2 > d1 + 1 THEN Slice(line, j, d2)
       ELSE << >>

\* the numeral that follows the threshold phrase of the line
ThresholdNumeral(line) ==
    LET p == Find(line, ThresholdPhrase \o <<SP>>, 0)
    IN IF p = -1 THEN << >>
       ELSE NumeralAt(line, p + Len(ThresholdPhrase) + 1)

\* C6: a line that holds the threshold phrase followed by a decimal numeral
\* t yields exactly one threshold warning, with threshold t, the line's
\* 1-based index as line_number and the line as source_line.
C6_OneWarningPerLine ==
    warnings.called =>
        \A k \in 1..Len(lines) :
            ThresholdNumeral(lines[k]) # << >> =>
                /\ Cardinality(WarningsOfLine(k)) = 1
                /\ \A i \in WarningsOfLine(k) :
                     /\ warnings.value[i].threshold
                            = Float(ThresholdNumeral(lines[k])).val
                     /\ warnings.value[i].source_line = lines[k]

\* C9: the three operations return normally for every buffer; a line whose
\* processing fails contributes nothing, and every other line contributes
\* what it contributes on its own.
C9_FailureContained ==
    AllCalled =>
        /\ ~entries.raised /\ ~warnings.raised /\ ~malformed.raised
        /\ \A k \in 1..Len(lines) :
             /\ ThresholdLine(lines[k], k).failed => WarningsOfLine(k) = {}
             /\ ParseLine(lines[k], k).failed => EntriesOfLine(k) = {}
             /\ ~ThresholdLine(lines[k], k).failed =>
                    Cardinality(WarningsOfLine(k))
                        = Len(ThresholdLine(lines[k], k).out)
             /\ ~ParseLine(lines[k], k).failed =>
                    Cardinality(EntriesOfLine(k))
                        = Len(ParseLine(lines[k], k).out)
             /\ Cardinality(ReportsOfLine(k))
                    = Len(MalformedLine(lines[k], k))

\* a reader of comma-separated text: the loop over the characters, with the
\* rows read so far, the fields of the current row and the current field
CsvReadGo(s, st) == st.pos < Len(s)

CsvReadStep(s, st) ==
    LET c == At(s, st.pos)
        next == IF st.pos + 1 < Len(s) THEN At(s, st.pos + 1) ELSE "end"
    IN IF st.inq
       THEN IF c = Q2 /\ next = Q2
            THEN [st EXCEPT !.pos = @ + 2, !.field = Append(@, Q2)]
            ELSE IF c = Q2 THEN [st EXCEPT !.pos = @ + 1, !.inq = FALSE]
            ELSE [st EXCEPT !.pos = @ + 1, !.field = Append(@, c)]
       ELSE IF c = Q2 /\ st.field = << >>
            THEN [st EXCEPT !.pos = @ + 1, !.inq = TRUE]
            ELSE IF c = ","
            THEN [st EXCEPT !.pos = @ + 1, !.row = Append(@, st.field),
                            !.field = << >>]
            ELSE IF c = CR /\ next = NL
            THEN [st EXCEPT !.pos = @ + 2,
                            !.rows = Append(@, Append(st.row, st.field)),
                            !.row = << >>, !.field = << >>]
            ELSE [st EXCEPT !.pos = @ + 1, !.field = Append(@, c)]

\* the rows of a comma-separated text, each a sequence of fields
CsvRead(s) ==
    While(CsvReadGo, CsvReadStep, s,
          [pos |-> 0, rows |-> << >>, row |-> << >>, field |-> << >>,
           inq |-> FALSE], Len(s)).rows

\* the text with every newline turned into a space and every carriage
\* return dropped
OneLine(text) ==
    LET NotCR(t) == t # CR
    IN SelectSeq([i \in 1..Len(text) |->
                     IF text[i] = NL THEN SP ELSE text[i]], NotCR)

\* C10: for a non-empty sequence of n entries, format_as_csv writes a header
\* row with the columns document_content, source_file, similarity_score,
\* quality_score, timestamp and then n rows in entry order, the content of
\* each with its line breaks replaced, so that an entry is one row.
C10_CsvRows ==
    (csv.called /\ entries.value # << >>) =>
        LET rows == CsvRead(csv.value)
            n == Len(entries.value)
        IN /\ Len(rows) = n + 1
           /\ rows[1] = << <<"document_content">>, <<"source_file">>,
                           <<"similarity_score">>, <<"quality_score">>,
                           <<"timestamp">> >>
           /\ \A i \in 1..n :
                /\ Len(rows[i + 1]) = 5
                /\ rows[i + 1][1] = OneLine(entries.value[i].document_content)
                /\ \A j \in 1..Len(rows[i + 1][1]) :
                     rows[i + 1][1][j] \notin {NL, CR}
                /\ rows[i + 1][2] = TextOrEmpty(entries.value[i].source_file)
                /\ rows[i + 1][3] = FloatStr(entries.value[i].similarity_score)
                /\ rows[i + 1][5] = TextOrEmpty(entries.value[i].timestamp)

\* two entries, the second with line breaks in its content, were rendered
C10_Witness ==
    /\ csv.called
    /\ Len(entries.value) = 2
    /\ entries.value[2].document_content = <<CR, NL, LX, ",", Q2>>
    /\ Len(CsvRead(csv.value)) = 3

\* a reader of JSON text, for a list of objects: the loop over the
\* characters, with the nesting depth, the string being read, the key of the
\* member being read in an object of the list, and the similarity_score
\* members read so far, one for each object of the list
JsonReadGo(s, st) == st.pos < Len(s)

JsonUnescape(c) ==
    CASE c = "n" -> NL [] c = "r" -> CR [] OTHER -> c

JsonReadStep(s, st) ==
    LET c == At(s, st.pos)
        isScore == st.key = <<"similarity_score">>
    IN IF st.instr
       THEN IF c = BS
            THEN [st EXCEPT !.pos = @ + 2,
                            !.str = Append(@, JsonUnescape(At(s, st.pos + 1)))]
            ELSE IF c = Q2
            THEN [st EXCEPT !.pos = @ + 1, !.instr = FALSE, !.last = st.str]
            ELSE [st EXCEPT !.pos = @ + 1, !.str = Append(@, c)]
       ELSE IF c = Q2
            THEN [st EXCEPT !.pos = @ + 1, !.instr = TRUE, !.str = << >>]
       ELSE IF c \in {"[", "{"}
            THEN [st EXCEPT !.pos = @ + 1, !.depth = @ + 1, !.key = << >>,
                            !.num = << >>,
                            !.score = IF st.depth = 1 THEN None ELSE @]
       ELSE IF c \in {"]", "}"}
            THEN [st EXCEPT !.pos = @ + 1, !.depth = @ - 1, !.key = << >>,
                            !.scores =
                                IF st.depth = 2
                                THEN Append(@, IF isScore THEN st.num
                                               ELSE st.score)
                                ELSE @]
       ELSE IF c = ":" /\ st.depth = 2
            THEN [st EXCEPT !.pos = @ + 1, !.key = st.last, !.num = << >>]
       ELSE IF c = "," /\ st.depth = 2
            THEN [st EXCEPT !.pos = @ + 1, !.key = << >>,
                            !.score = IF isScore THEN st.num ELSE @]
       ELSE IF c \in {SP, NL} \/ st.depth # 2
            THEN [st EXCEPT !.pos = @ + 1]
       ELSE [st EXCEPT !.pos = @ + 1, !.num = Append(@, c)]

\* the similarity_score members of the objects of a JSON list, in order
JsonRead(s) ==
    While(JsonReadGo, JsonReadStep, s,
          [pos |-> 0, depth |-> 0, instr |-> FALSE, str |-> << >>,
           last |-> << >>, key |-> << >>, num |-> << >>, score |-> None,
           scores |-> << >>], Len(s)).scores

\* C11: re-parsing the output of format_as_json gives a list with as many
\* elements as there are entries, in the same order, each with the
\* similarity_score of its entry.
C11_JsonRoundTrip ==
    (rendered.called /\ rendered.op = "format_as_json") =>
        LET scores == JsonRead(rendered.value)
        IN /\ Len(scores) = Len(entries.value)
           /\ \A i \in 1..Len(entries.value) :
                /\ Float(scores[i]).ok
                /\ Float(scores[i]).val = entries.value[i].similarity_score

\* three entries were rendered, the second with a content that reads as
\* the end of a string and the start of a further object
C11_Witness ==
    /\ rendered.called
    /\ rendered.op = "format_as_json"
    /\ Len(entries.value) = 3
    /\ entries.value[2].document_content = ClosingContent
    /\ Len(JsonRead(rendered.value)) = 3

\* the text that follows the first occurrence of a label in the report, up
\* to the end of its line
ReportField(report, label) ==
    LET p == IndexOf(report, label, 0)
        end == IF p = -1 THEN -1 ELSE IndexOf(report, NL, p)
    IN IF p = -1 THEN None
       ELSE Slice(report, p + 1, IF end = -1 THEN Len(report) ELSE end)

\* the digit a character spells
DigitOf(c) == CHOOSE d \in 0..9 : DigitChar(d) = c

RECURSIVE NumeralVal(_, _)
NumeralVal(text, acc) ==
    IF text = << >> THEN acc
    ELSE NumeralVal(Tail(text), 10 * acc + DigitOf(text[1]))

\* the number spelled by a numeral of four decimals, in units of 1/10000
Fixed4Val(text) ==
    LET neg == text[1] = "-"
        body == IF neg THEN Tail(text) ELSE text
        dot == IndexOf(body, ".", 0)
        mag == NumeralVal(Slice(body, 0, dot) \o Slice(body, dot + 1, Len(body)),
                          0)
    IN IF neg THEN 0 - mag ELSE mag

\* a decimal <<n, k>> of at most four decimals, in units of 1/10000
Scaled(x) == x[1] * Pow10(4 - x[2])

\* the sum of the similarity scores of entries 1..i, in units of 1/10000
RECURSIVE ScaledSum(_)
ScaledSum(i) ==
    IF i = 0 THEN 0
    ELSE ScaledSum(i - 1) + Scaled(entries.value[i].similarity_score)

RenderingDone == rendered.called \/ csv.called

C15_WitnessUnsupported ==
    /\ rendered.called
    /\ rendered.op = "save_results"
    /\ rendered.raised
    /\ rendered.error = "ValueError"
    /\ rendered.output_file = OutPath
    /\ fs[OutPath] = File(<<LX>>)

\* the characters of a token: a run is RunLen letters x, a word is its
\* letters one by one
CharsOf(t) ==
    IF t = XRun THEN [j \in 1..RunLen |-> <<LX, 1>>]
    ELSE [j \in 1..CharLen(t) |-> <<t, j>>]

\* a text character by character
RECURSIVE CharSeq(_)
CharSeq(s) ==
    IF s = << >> THEN << >>
    ELSE IF Len(s) = 1 THEN CharsOf(s[1])
    ELSE LET h == Len(s) \div 2
         IN CharSeq(SubSeq(s, 1, h)) \o CharSeq(SubSeq(s, h + 1, Len(s)))

\* C16: the document_content of every entry is the content extracted for
\* its record when that is at most 500 characters long, and otherwise its
\* first 500 characters followed by "..."; it is never longer than 503
\* characters.
C16_BoundedPreview ==
    ListParsed =>
        \A i \in 1..Len(records) : \A k \in EntriesAt(MarkerPos(records, i)) :
            LET content == CharSeq(records[i].content)
                shown == CharSeq(entries.value[k].document_content)
            IN /\ Len(shown) <= 503
               /\ Len(content) <= 500 => shown = content
               /\ Len(content) > 500 =>
                    shown = SubSeq(content, 1, 500) \o CharSeq(<<".", ".", ".">>)

\* an entry was made of a record whose content is 502 characters long
C16_Witness ==
    /\ ListParsed
    /\ Len(records) >= 1
    /\ records[1].content = <<XRun, "]", XRun, LX>>
    /\ \E k \in EntriesAt(MarkerPos(records, 1)) :
         Len(CharSeq(entries.value[k].document_content)) = 503

\* an entry was made of a record whose content is 500 characters long
C16_WitnessWhole ==
    /\ ListParsed
    /\ Len(records) >= 1
    /\ records[1].content = <<XRun, XRun>>
    /\ \E k \in EntriesAt(MarkerPos(records, 1)) :
         entries.value[k].document_content = <<XRun, XRun>>

\* the scan the claim describes goes on while the depth is not 0 and the
\* text has not ended
DelimiterGo(s, st) == st.depth # 0 /\ st.pos < Len(s)

\* one character of that scan: the depth changes outside strings only, and a
\* quote toggles the string unless a backslash stands before it or it is the
\* other quote inside a string
DelimiterStep(s, st) ==
    LET c == At(s, st.pos)
        escaped == st.pos > 0 /\ At(s, st.pos - 1) = BS
        other == st.quote # "None" /\ c # st.quote
        toggles == c \in {Q1, Q2} /\ ~escaped /\ ~other
        outside == st.quote = "None"
    IN [st EXCEPT
           !.pos = @ + 1,
           !.depth = IF outside /\ c \in st.opening THEN @ + 1
                     ELSE IF outside /\ c = st.closing THEN @ - 1
                     ELSE @,
           !.quote = IF toggles THEN (IF outside THEN c ELSE "None") ELSE @]

\* the scan the claim describes, for the delimiters opening and closing:
\* from position pos with the given depth and the quote of the string the
\* scan is in ("None" outside strings), the first position after which the
\* depth is 0, or not found at the end of the text
DelimiterScan(s, pos, depth, quote, opening, closing) ==
    LET st == While(DelimiterGo, DelimiterStep, s,
                    [pos |-> pos, depth |-> depth, quote |-> quote,
                     opening |-> opening, closing |-> closing], Len(s))
    IN [found |-> st.depth = 0, end |-> st.pos]

\* the positions of the record markers of a text
MarkersOf(s) == {p \in 0..(Len(s) - 1) : At(s, p) = DOC}

\* the entries parse_log_content returned for the only line of the log
\* are those of _extract_relevance_scores_from_line on a relevance warning
ScannedLine == entries.called /\ Len(lines) = 1 /\ Contains(LastLine, RelevanceStart)

\* C17: on every line with a relevance warning the bracket scan, started
\* after the "[" of the warning, ends at the first position where the depth
\* is back to 0, the depth changing only outside quoted substrings and a
\* quote toggling the in-string state unless a backslash stands right
\* before it or it is the other quote inside a string; when the text ends
\* with depth > 0 the line yields no entry. The paren scan started after
\* each "Document(" of the list does the same with "(" and ")", and a
\* marker whose envelope is not closed yields no entry.
C17_ScanSemantics ==
    ScannedLine =>
        LET line == LastLine
            start_pos == Find(line, RelevanceStart, 0) + Len(RelevanceStart) - 1
            scan == ExtractBracketScan(line, start_pos)
            list == DelimiterScan(line, start_pos + 1, 1, "None", {"["}, "]")
            doc_list_str == Slice(line, start_pos, list.end)
        IN /\ (scan.bracket_count = 0) = list.found
           /\ list.found => scan.pos = list.end
           /\ ~list.found => entries.value = << >>
           /\ list.found =>
                \A p \in MarkersOf(doc_list_str) :
                    LET parens == DocParenScan(doc_list_str, p)
                        envelope == DelimiterScan(doc_list_str, p + 1, 1,
                                                  "None", {"(", DOC}, ")")
                    IN /\ (parens.paren_count = 0) = envelope.found
                       /\ envelope.found => parens.doc_end = envelope.end
                       /\ ~envelope.found => EntriesAt(start_pos + p) = {}

\* a list with a "]" inside a quoted payload was scanned to its end and
\* gave entries, and a quote of the line has a backslash before it
C17_Witness ==
    /\ ScannedLine
    /\ LET line == LastLine
           start_pos == Find(line, RelevanceStart, 0) + Len(RelevanceStart) - 1
           list == DelimiterScan(line, start_pos + 1, 1, "None", {"["}, "]")
       IN /\ list.found
          /\ \E p \in (start_pos + 1)..(list.end - 2) : At(line, p) = "]"
          /\ \E p \in (start_pos + 1)..(list.end - 1) :
               At(line, p) = BS /\ At(line, p + 1) \in {Q1, Q2}
          /\ entries.value # << >>

\* a list whose text ends inside a string gave no entry
C17_WitnessNotFound ==
    /\ ScannedLine
    /\ LET line == LastLine
           start_pos == Find(line, RelevanceStart, 0) + Len(RelevanceStart) - 1
           list == DelimiterScan(line, start_pos + 1, 1, "None", {"["}, "]")
       IN /\ ~list.found
          /\ \E p \in (start_pos + 1)..(Len(line) - 1) : At(line, p) = "]"
    /\ entries.value = << >>

\* a marker of a closed list has an envelope that is not closed
C17_WitnessEnvelope ==
    /\ ScannedLine
    /\ LET line == LastLine
           start_pos == Find(line, RelevanceStart, 0) + Len(RelevanceStart) - 1
           list == DelimiterScan(line, start_pos + 1, 1, "None", {"["}, "]")
           doc_list_str == Slice(line, start_pos, list.end)
       IN /\ list.found
          /\ \E p \in MarkersOf(doc_list_str) :
               ~DelimiterScan(doc_list_str, p + 1, 1, "None", {"(", DOC},
                              ")").found

\* the position of the "[" that opens the list of a relevance warning
ListStart(line) == Find(line, RelevanceStart, 0) + Len(RelevanceStart) - 1

\* the relevance-warning report of handle_malformed_entries for the line
ReportedNoDocs ==
    \E k \in 1..Len(malformed.value) :
        malformed.value[k].type = "relevance_warning_no_docs"

\* C18: on every line with a relevance warning the bracket scan of
\* _extract_relevance_scores_from_line and the bracket scan of
\* handle_malformed_entries agree on whether the list is balanced and on
\* where it ends, so that both hand the same list text to
\* _parse_document_list: the line is reported as a relevance warning without
\* documents only when it yields no entry.
C18_ScansAgree ==
    (entries.called /\ malformed.called /\ Len(lines) = 1
        /\ Contains(LastLine, RelevanceStart)) =>
        LET line == LastLine
            main == ExtractBracketScan(line, ListStart(line))
            copy == MalformedBracketScan(line, ListStart(line))
        IN /\ (main.bracket_count = 0) = (copy.bracket_count = 0)
           /\ main.pos = copy.pos
           /\ Slice(line, ListStart(line), main.pos)
                = Slice(line, ListStart(line), copy.pos)
           /\ ReportedNoDocs => entries.value = << >>
           /\ main.bracket_count # 0 => ReportedNoDocs
           /\ IsParsed(line)
                = (main.bracket_count = 0
                   /\ ParseDocumentList(Slice(line, ListStart(line), main.pos))
                        # << >>)

\* both operations scanned a closed list that has a "]" inside a quoted
\* payload, and the line gave entries and no report
C18_Witness ==
    /\ entries.called /\ malformed.called /\ Len(lines) = 1
    /\ Contains(LastLine, RelevanceStart)
    /\ LET copy == MalformedBracketScan(LastLine, ListStart(LastLine))
       IN /\ copy.bracket_count = 0
          /\ \E p \in (ListStart(LastLine) + 1)..(copy.pos - 2) :
               At(LastLine, p) = "]"
    /\ entries.value # << >>
    /\ malformed.value = << >>

\* both operations scanned a list that is not closed
C18_WitnessUnbalanced ==
    /\ entries.called /\ malformed.called /\ Len(lines) = 1
    /\ Contains(LastLine, RelevanceStart)
    /\ MalformedBracketScan(LastLine, ListStart(LastLine)).bracket_count # 0
    /\ ReportedNoDocs

\* what the claim has a path contribute: the entries of the file's text,
\* read as UTF-8 or, failing that, as GBK; nothing for a path that is
\* missing, is no file, or decodes under neither
Contribution(p) ==
    LET utf8 == Decode(fs[p].data, "utf-8")
        gbk == Decode(fs[p].data, "gbk")
        text == IF utf8.ok THEN utf8.text ELSE gbk.text
    IN IF fs[p].kind # "file" \/ (~utf8.ok /\ ~gbk.ok) THEN << >>
       ELSE ParseLogContent(SplitLines(UniversalNewlines(text))).value

RECURSIVE Contributions(_)
Contributions(file_paths) ==
    IF file_paths = << >> THEN << >>
    ELSE Contribution(file_paths[1]) \o Contributions(Tail(file_paths))

\* the similarity scores of a list of entries
ScoresOf(es) == [k \in 1..Len(es) |-> es[k].similarity_score]

TimesProcessed(p) ==
    Cardinality({i \in 1..Len(batch.processed) : batch.processed[i] = p})

\* the extension of a name
ExtensionOf(name) == name[Len(name)]

DefaultExtensions == {".log", ".txt", ".out"}

\* process_log_directory was called with the default pattern
DefaultDirectoryCall ==
    /\ batch.called
    /\ batch.op = "process_log_directory"
    /\ batch.file_pattern = <<"*", ".log">>

\* C14 as stated: process_log_directory with the default pattern processes
\* every file of the directory whose extension is .log, .txt or .out
\* exactly once, and no other file.
C14_AsStated ==
    DefaultDirectoryCall =>
        \A n \in Names :
            fs[Join(LogDir, n)].kind = "file" =>
                TimesProcessed(Join(LogDir, n))
                    = IF ExtensionOf(n) \in DefaultExtensions THEN 1 ELSE 0

\* C14, amended: process_log_directory with the default pattern calls
\* process_log_file exactly once for every path of the directory whose name
\* ends with .log, .txt or .out and does not start with ".", and for no
\* other path.
C14_VisibleNamesOnce ==
    DefaultDirectoryCall =>
        /\ ~batch.raised
        /\ \A n \in Names :
             TimesProcessed(Join(LogDir, n))
                 = IF /\ fs[Join(LogDir, n)] # Missing
                      /\ ExtensionOf(n) \in DefaultExtensions
                      /\ n[1] # "."
                   THEN 1 ELSE 0
        /\ \A i \in 1..Len(batch.processed) :
             \E n \in Names : batch.processed[i] = Join(LogDir, n)

\* the directory holds a.log, found by two of the four globs, a hidden
\* .h.log and c.csv, and three paths were processed
C14_Witness ==
    /\ DefaultDirectoryCall
    /\ fs[Join(LogDir, <<"a", ".log">>)] = File(Utf8Log)
    /\ fs[Join(LogDir, <<".", "h", ".log">>)].kind = "file"
    /\ fs[Join(LogDir, <<"c", ".csv">>)].kind = "file"
    /\ TimesProcessed(Join(LogDir, <<"a", ".log">>)) = 1
    /\ Len(batch.processed) = 3
    /\ Len(batch.value) = 4

\* the loop is running, or has just been left
InLoop == loop.pc = "loop"

\* C19: every pass of the loop of _parse_document_list that goes round,
\* be it the retry after an unclosed envelope, the pass without score or
\* the pass with a record, leaves the cursor further right than it found it
\* and within the text, so that there are never more passes than positions;
\* the loop is left on every list text, when no marker is left, the text is
\* at its end or the cap is reached, and what it has collected then is what
\* _parse_document_list returns.
C19_CursorAdvances ==
    /\ [][(InLoop /\ loop'.pc = "loop") =>
            /\ loop'.pos > loop.pos
            /\ loop'.pos <= Len(loop.s)]_vars
    /\ [][(InLoop /\ loop'.pc = "done") =>
            /\ \/ IndexOf(loop.s, DOC, loop.pos) = -1
               \/ loop.pos >= Len(loop.s)
               \/ loop.iteration >= IterationCap
            /\ loop'.results = ParseDocumentList(loop.s)]_vars
    /\ [](loop.passes <= loop.pos)
    /\ (InLoop ~> loop.pc = "done")

\* the loop was left after passes of the three kinds: a retry, a pass
\* without score and a pass with a record
C19_Witness ==
    /\ loop.pc = "done"
    /\ loop.passes = 3
    /\ loop.iteration = 2
    /\ Len(loop.results) = 1

\* C20: the loop of _parse_document_list never makes more than 20 passes
\* on a list text and never collects more than 20 records.
C20_TwentyPasses == loop.passes <= 20 /\ Len(loop.results) <= 20

\* the records collected never exceed the cap, and the list of 21 records
\* ends with 20 of them
C20_TwentyRecords ==
    /\ Len(loop.results) <= 20
    /\ loop.iteration <= 20
    /\ (loop.pc = "done" /\ loop.s = PlainList(MaxRecords)) =>
           Len(loop.results) = 20

\* the envelope of the marker at position p of the text s, by the scan the
\* spec describes: found when its parens balance, end right after its ")"
EnvelopeOf(s, p) == DelimiterScan(s, p + 1, 1, "None", {"(", DOC}, ")")

\* the text holds page_content= and, right after, a quote that comes again
HasContentText(d) ==
    \E i \in 1..(Len(d) - 1) :
        /\ d[i] = PC
        /\ d[i + 1] \in {Q1, Q2}
        /\ \E c \in (i + 2)..Len(d) : d[c] = d[i + 1]

\* the text holds metadata={ and a "}" after it
HasMetadataText(d) ==
    \E i \in 1..(Len(d) - 1) :
        /\ d[i] = MD
        /\ d[i + 1] = "{"
        /\ \E c \in (i + 2)..Len(d) : d[c] = "}"

\* digits with at most one ".", ending with a digit
IsDecimalText(t) ==
    /\ t # << >>
    /\ \A i \in 1..Len(t) : t[i] \in Digits \cup {"."}
    /\ t[Len(t)] \in Digits
    /\ Cardinality({i \in 1..Len(t) : t[i] = "."}) <= 1

\* the longest optionally signed decimal number the text s holds at
\* position j; empty when it holds none there
SignedDecimalAt(s, j) ==
    LET sg == IF j < Len(s) /\ At(s, j) \in {"-", "+"} THEN 1 ELSE 0
        ends == {e \in (j + sg + 1)..Len(s) : IsDecimalText(Slice(s, j + sg, e))}
    IN IF ends = {} THEN << >>
       ELSE Slice(s, j, CHOOSE e \in ends : \A f \in ends : f <= e)

\* where the run of characters of the set S that starts at position e ends
AfterRunOf(s, e, S) ==
    CHOOSE a \in e..Len(s) :
        /\ \A i \in e..(a - 1) : At(s, i) \in S
        /\ a < Len(s) => At(s, a) \notin S

\* where the run of spaces, commas and ")" that starts at position e ends
AfterRun(s, e) == AfterRunOf(s, e, {SP, ",", ")"})

\* the marker at position q of the text starts a record that is balanced,
\* well-formed and followed by a score
GoodRecord(s, q) ==
    /\ EnvelopeOf(s, q).found
    /\ HasContentText(Slice(s, q, EnvelopeOf(s, q).end))
    /\ HasMetadataText(Slice(s, q, EnvelopeOf(s, q).end))
    /\ SignedDecimalAt(s, AfterRun(s, EnvelopeOf(s, q).end)) # << >>

\* the loop has collected a record for the marker at position q
Emitted(q) == \E k \in 1..Len(loop.results) : loop.results[k].doc_start = q

\* a marker without closed envelope stands before the marker at position q
AfterUnbalanced(s, q) ==
    \E p \in MarkersOf(s) : p < q /\ ~EnvelopeOf(s, p).found

\* C21 as stated: when the envelope after a marker is unbalanced the loop
\* goes on, and every later record of the list that is balanced, well-formed
\* and followed by a score is emitted.
C21_AsStated ==
    loop.pc = "done" =>
        \A q \in MarkersOf(loop.s) :
            (AfterUnbalanced(loop.s, q) /\ GoodRecord(loop.s, q)) => Emitted(q)

\* the marker at position q stands outside the envelope of every earlier
\* marker, and fewer markers with a closed envelope than the cap counts stand
\* before it
WithinCap(s, q) ==
    /\ \A r \in MarkersOf(s) :
         (r < q /\ EnvelopeOf(s, r).found) => EnvelopeOf(s, r).end <= q
    /\ Cardinality({r \in MarkersOf(s) : r < q /\ EnvelopeOf(s, r).found})
           < IterationCap

\* C21, amended: a pass that finds a marker whose envelope is unbalanced
\* moves the cursor to one position past that marker, collects nothing and
\* leaves the loop running; and every later record of the list that is
\* balanced, well-formed and followed by a score is emitted when its marker
\* stands outside the envelope of every earlier marker and fewer than 20
\* markers with a closed envelope stand before it.
C21_UnbalancedSkipped ==
    /\ [][(/\ InLoop
           /\ loop' # loop
           /\ loop.pos < Len(loop.s) /\ loop.iteration < IterationCap
           /\ IndexOf(loop.s, DOC, loop.pos) # -1
           /\ ~EnvelopeOf(loop.s, IndexOf(loop.s, DOC, loop.pos)).found) =>
              /\ loop'.pc = "loop"
              /\ loop'.pos = IndexOf(loop.s, DOC, loop.pos) + 1
              /\ loop'.results = loop.results]_vars
    /\ [](loop.pc = "done" =>
            \A q \in MarkersOf(loop.s) :
                (/\ AfterUnbalanced(loop.s, q)
                 /\ GoodRecord(loop.s, q)
                 /\ WithinCap(loop.s, q)) => Emitted(q))

\* the loop was left on the list of a marker without envelope and twenty
\* records, all of them collected
C21_Witness ==
    /\ loop.pc = "done"
    /\ loop.s = <<"[">> \o OpenMarkers(1) \o Tail(PlainList(MaxRecords - 1))
    /\ Len(loop.results) = MaxRecords - 1
    /\ \A q \in MarkersOf(loop.s) : q > 1 => Emitted(q)

\* a pass of the loop that finds a marker with a closed envelope
EnvelopePass ==
    /\ InLoop
    /\ loop' # loop
    /\ loop.pos < Len(loop.s) /\ loop.iteration < IterationCap
    /\ IndexOf(loop.s, DOC, loop.pos) # -1
    /\ EnvelopeOf(loop.s, IndexOf(loop.s, DOC, loop.pos)).found

\* what the claim says of such a pass, for the set S of the characters
\* skipped after the envelope: with a number after the run the cursor moves
\* past the number and the record, if one is collected, has it as its score;
\* without one nothing is collected and the cursor moves to the end of the
\* envelope
ScoreRule(S) ==
    LET doc_start == IndexOf(loop.s, DOC, loop.pos)
        envelope == EnvelopeOf(loop.s, doc_start)
        after == AfterRunOf(loop.s, envelope.end, S)
        number == SignedDecimalAt(loop.s, after)
    IN IF number # << >>
       THEN /\ loop'.pos = after + Len(number)
            /\ \/ loop'.results = loop.results
               \/ /\ Len(loop'.results) = Len(loop.results) + 1
                  /\ SubSeq(loop'.results, 1, Len(loop.results)) = loop.results
                  /\ loop'.results[Len(loop'.results)].score = number
                  /\ loop'.results[Len(loop'.results)].doc_start = doc_start
       ELSE /\ loop'.pos = envelope.end
            /\ loop'.results = loop.results

\* C22 as stated: after a balanced envelope the loop skips any run of
\* whitespace, commas and ")" and then requires an optionally signed decimal
\* number: if one is there it is the record's score and the cursor moves
\* past it; if not, no record is emitted for the envelope and the cursor
\* moves to just past the envelope.
C22_AsStated == [][EnvelopePass => ScoreRule({SP, TAB, ",", ")"})]_vars

\* C22, amended: the same with a run of spaces (no other whitespace), commas
\* and ")"; the pass is counted against the cap and the loop goes on.
C22_ScoreRequired ==
    [][EnvelopePass =>
          /\ ScoreRule({SP, ",", ")"})
          /\ loop'.pc = "loop"
          /\ loop'.iteration = loop.iteration + 1]_vars

\* the loop was left on the list whose score -.5 stands after a run of
\* spaces, commas and parens, with that score collected
C22_Witness ==
    /\ loop.pc = "done"
    /\ loop.s \in ScoreTexts
    /\ Len(loop.results) = 1
    /\ loop.results[1].score = <<"-", ".", "5">>
    /\ loop.results[1].doc_start = 2

\* the loop was left on the list whose first envelope has a letter where its
\* score should be: the record after it is the only one collected
C22_WitnessNoScore ==
    /\ loop.pc = "done"
    /\ loop.s \in ScoreTexts
    /\ Cardinality(MarkersOf(loop.s)) = 2
    /\ Len(loop.results) = 1
    /\ loop.results[1].doc_start > 2

\* C23: a pass that finds a balanced envelope followed by a score collects
\* a record exactly when both the page_content match and the metadata match
\* succeed on the envelope's text; with content but no metadata, or metadata
\* but no content, it collects nothing, and in either case the cursor moves
\* past the score and the loop goes on.
C23_BothMandatory ==
    [][EnvelopePass =>
          LET doc_start == IndexOf(loop.s, DOC, loop.pos)
              envelope == EnvelopeOf(loop.s, doc_start)
              doc_part == Slice(loop.s, doc_start, envelope.end)
              after == AfterRun(loop.s, envelope.end)
              number == SignedDecimalAt(loop.s, after)
          IN number # << >> =>
                /\ (loop'.results # loop.results)
                       = (HasContentText(doc_part) /\ HasMetadataText(doc_part))
                /\ Len(loop'.results) <= Len(loop.results) + 1
                /\ loop'.pos = after + Len(number)
                /\ loop'.pc = "loop"]_vars

\* the loop was left on a list whose first envelope, with its score, has a
\* page_content and no metadata: only the record after it was collected
C23_Witness ==
    /\ loop.pc = "done"
    /\ loop.s \in FieldTexts
    /\ HasContentText(Slice(loop.s, 2, EnvelopeOf(loop.s, 2).end))
    /\ ~HasMetadataText(Slice(loop.s, 2, EnvelopeOf(loop.s, 2).end))
    /\ loop.iteration = 2
    /\ Len(loop.results) = 1
    /\ loop.results[1].doc_start > 2

\* the same for a first envelope with metadata and no page_content
C23_WitnessNoContent ==
    /\ loop.pc = "done"
    /\ loop.s \in FieldTexts
    /\ ~HasContentText(Slice(loop.s, 2, EnvelopeOf(loop.s, 2).end))
    /\ HasMetadataText(Slice(loop.s, 2, EnvelopeOf(loop.s, 2).end))
    /\ loop.iteration = 2
    /\ Len(loop.results) = 1
    /\ loop.results[1].doc_start > 2

\* the first position from pos on that holds the quote q without a backslash
\* before it; -1 when there is none
UnescapedQuote(d, q, pos) ==
    LET P(i) == At(d, i) = q /\ (i = 0 \/ At(d, i - 1) # BS)
    IN FirstIn(pos, Len(d) - 1, P, -1)

\* a payload with each \' read as '
RECURSIVE Unescaped(_)
Unescaped(t) ==
    IF t = << >> THEN << >>
    ELSE IF Len(t) >= 2 /\ t[1] = BS /\ t[2] = Q1
    THEN <<Q1>> \o Unescaped(Slice(t, 2, Len(t)))
    ELSE <<t[1]>> \o Unescaped(Tail(t))

\* the content the claim gives the envelope text d: behind the first
\* page_content=', the payload up to the first unescaped closing quote with
\* each \' unescaped; when there is no page_content=' with its closing quote,
\* the payload between page_content=" and the next "
ClaimedContent(d) ==
    LET p1 == Find(d, <<PC, Q1>>, 0)
        c1 == IF p1 = -1 THEN -1 ELSE UnescapedQuote(d, Q1, p1 + 2)
        p2 == Find(d, <<PC, Q2>>, 0)
        c2 == IF p2 = -1 THEN -1 ELSE IndexOf(d, Q2, p2 + 2)
    IN IF c1 # -1 THEN Unescaped(Slice(d, p1 + 2, c1))
       ELSE Slice(d, p2 + 2, c2)

\* C24: the content of a record is taken with the single-quoted pattern
\* first, escaped single quotes honoured: for page_content='...' whose
\* payload holds \' the content is the whole payload up to the first
\* unescaped closing quote, each \' unescaped to '; the double-quoted
\* pattern is used only when no single-quoted pattern matches.
C24_EscapedQuotes ==
    (loop.pc = "done" /\ loop.s \in QuoteTexts) =>
        /\ Len(loop.results) = 1
        /\ loop.results[1].content
               = ClaimedContent(Slice(loop.s, 2, EnvelopeOf(loop.s, 2).end))

\* what holds of the quoted payloads: a double-quoted payload, with or
\* without a single quote in it, is the content of its record
C24_DoubleQuoted ==
    (/\ loop.pc = "done"
     /\ loop.s \in {QuotedList(Q2, <<LX, Q1, LY>>), QuotedList(Q2, <<LX>>)}) =>
        /\ Len(loop.results) = 1
        /\ loop.results[1].content \in {<<LX, Q1, LY>>, <<LX>>}
        /\ loop.results[1].content
               = ClaimedContent(Slice(loop.s, 2, EnvelopeOf(loop.s, 2).end))

\* the record of the line was parsed
RecordParsed == entries.called /\ Len(records) = 1 /\ Len(lines) = 1

\* the text after 'key': and spaces, at the leftmost place of the metadata
\* text where a value follows them: a quoted text that is not empty for the
\* keys source and id, a run of digits for seq_num; "no value" when there is
\* no such place
ValueOf(text, key) ==
    LET after(p) == AfterRunOf(text, p + 4, {SP})
        close(p) == CHOOSE c \in (after(p) + 1)..(Len(text) - 1) :
                        /\ At(text, c) = Q1
                        /\ \A d \in (after(p) + 1)..(c - 1) : At(text, d) # Q1
        digits(p) == AfterRunOf(text, after(p), Digits)
        valued(p) ==
            /\ OccursAt(text, <<Q1, key, Q1, ":">>, p)
            /\ IF key = KeySeq THEN digits(p) > after(p)
               ELSE /\ after(p) < Len(text) /\ At(text, after(p)) = Q1
                    /\ \E c \in (after(p) + 2)..(Len(text) - 1) :
                          /\ At(text, c) = Q1
                          /\ \A d \in (after(p) + 1)..(c - 1) : At(text, d) # Q1
        places == {p \in 0..(Len(text) - 4) : valued(p)}
        first == CHOOSE p \in places : \A r \in places : p <= r
    IN IF places = {} THEN <<"no value">>
       ELSE IF key = KeySeq THEN Slice(text, after(first), digits(first))
       ELSE Slice(text, after(first) + 1, close(first))

\* the mapping the claim gives a metadata text
ClaimedMetadata(text) ==
    [k \in {key \in {KeySource, KeyId, KeySeq} :
               ValueOf(text, key) # <<"no value">>} |-> ValueOf(text, k)]

\* C25: the metadata of every entry has keys among source, id and seq_num
\* only, each present exactly when the metadata text of the record holds
\* that key literal with a value, and mapped to that value as text, all
\* other keys ignored; source_file is metadata['source'] when that key is
\* present and None otherwise.
C25_MetadataKeys ==
    RecordParsed =>
        \A k \in 1..Len(entries.value) :
            /\ DOMAIN entries.value[k].metadata \subseteq {KeySource, KeyId, KeySeq}
            /\ entries.value[k].metadata = ClaimedMetadata(records[1].meta)
            /\ entries.value[k].source_file =
                   IF KeySource \in DOMAIN entries.value[k].metadata
                   THEN entries.value[k].metadata[KeySource]
                   ELSE <<"None">>

\* the record with the three keys gave an entry with the three values, the
\* sequence number as text
C25_Witness ==
    /\ RecordParsed
    /\ records[1].meta = MetaFull
    /\ Len(entries.value) = 1
    /\ DOMAIN entries.value[1].metadata = {KeySource, KeyId, KeySeq}
    /\ entries.value[1].metadata[KeySeq] = <<"1">>
    /\ entries.value[1].source_file = <<LY>>

\* a record with another key beside id gave an entry with id alone and no
\* source_file
C25_WitnessOtherKey ==
    /\ RecordParsed
    /\ Contains(records[1].meta, Item(LX, Quoted(<<LY>>)))
    /\ Len(entries.value) = 1
    /\ DOMAIN entries.value[1].metadata = {KeyId}
    /\ entries.value[1].source_file = <<"None">>

\* a text with its double quotes written as single quotes
SingleQuoted(text) == [i \in 1..Len(text) |-> IF text[i] = Q2 THEN Q1 ELSE text[i]]

\* C26: the identifying fields are extracted under either quoting style: a
\* record whose metadata keys and values are written with double quotes
\* gives the metadata mapping and the source_file of the same record
\* written with single quotes.
C26_EitherQuoting ==
    (RecordParsed /\ Len(entries.value) = 1) =>
        /\ entries.value[1].metadata
               = ClaimedMetadata(SingleQuoted(records[1].meta))
        /\ entries.value[1].source_file =
               IF ValueOf(SingleQuoted(records[1].meta), KeySource)
                      = <<"no value">>
               THEN <<"None">>
               ELSE ValueOf(SingleQuoted(records[1].meta), KeySource)

\* the digits and dots that follow the quality key and its spaces, at the
\* leftmost place of the payload where some do; empty when there is none
QualityNumeral(content) ==
    LET after(p) == AfterRunOf(content, p + 4, {SP})
        end(p) == AfterRunOf(content, after(p), Digits \cup {"."})
        places == {p \in 0..(Len(content) - 4) :
                      /\ OccursAt(content, <<Q1, KeyQuality, Q1, ":">>, p)
                      /\ end(p) > after(p)}
        first == CHOOSE p \in places : \A r \in places : p <= r
    IN IF places = {} THEN << >>
       ELSE Slice(content, after(first), end(first))

\* C27: a record with content, metadata and a convertible similarity score
\* gives an entry whatever text follows a quality_score key in its content;
\* quality_score is the first number found after that key, or None when the
\* key is absent or no number can be read, and the probe never makes the
\* entry be dropped.
C27_ProbeIndependent ==
    RecordParsed =>
        /\ Len(entries.value) = 1
        /\ entries.value[1].similarity_score = records[1].val
        /\ entries.value[1].quality_score =
               IF Float(QualityNumeral(records[1].content)).ok
               THEN Float(QualityNumeral(records[1].content)).val
               ELSE <<"None">>

\* what holds of the probe: an entry that is there has the number after the
\* first quality key that has one, or None when no key has one, and a
\* record whose quality numeral converts, or that has none, gives its entry
C27_ProbeWhenConvertible ==
    RecordParsed =>
        /\ \A k \in 1..Len(entries.value) :
             entries.value[k].quality_score =
                 IF QualityNumeral(records[1].content) = << >>
                 THEN <<"None">>
                 ELSE Float(QualityNumeral(records[1].content)).val
        /\ (\/ QualityNumeral(records[1].content) = << >>
            \/ Float(QualityNumeral(records[1].content)).ok) =>
               Len(entries.value) = 1

\* the timestamp text the line starts with, or None
LeadingTimestamp(line) ==
    IF ShapeAt(line, 0, TimestampShape)
    THEN Slice(line, 0, Len(TimestampShape))
    ELSE <<"None">>

\* C28: all entries built from one line carry that line as source_line and
\* the same timestamp: the timestamp text the line starts with, and None
\* when the line does not start with one, whatever timestamp-shaped text
\* stands elsewhere in the line.
C28_TimestampAtStart ==
    entries.called =>
        \A k \in 1..Len(entries.value) :
            /\ entries.value[k].source_line = lines[entries.value[k].line_num]
            /\ entries.value[k].timestamp
                   = LeadingTimestamp(lines[entries.value[k].line_num])

\* what holds of the timestamp: the entries of a line share the line and
\* the leftmost timestamp-shaped text of the line, wherever it stands
C28_TimestampAnywhere ==
    entries.called =>
        \A k \in 1..Len(entries.value) :
            /\ entries.value[k].source_line = lines[entries.value[k].line_num]
            /\ entries.value[k].timestamp
                   = Timestamp(lines[entries.value[k].line_num])

\* C29: a line that holds both trigger phrases is handled as a relevance
\* warning only and gives no ThresholdWarning, and a line that holds
\* neither phrase gives no entry and no ThresholdWarning.
C29_PriorityOrder ==
    (entries.called /\ warnings.called) =>
        \A i \in 1..Len(lines) :
            /\ (Contains(lines[i], RelevancePhrase)
                    /\ Contains(lines[i], ThresholdPhrase)) =>
                   \A k \in 1..Len(warnings.value) :
                       warnings.value[k].line_number # i
            /\ (~Contains(lines[i], RelevancePhrase)
                    /\ ~Contains(lines[i], ThresholdPhrase)) =>
                   /\ \A k \in 1..Len(entries.value) :
                          entries.value[k].line_num # i
                   /\ \A k \in 1..Len(warnings.value) :
                          warnings.value[k].line_number # i

\* what holds of the two scans: each looks for its own phrase alone, so a
\* line without the relevance phrase gives no entry and a line without the
\* threshold phrase gives no ThresholdWarning
C29_EachItsPhrase ==
    (entries.called /\ warnings.called) =>
        \A i \in 1..Len(lines) :
            /\ ~Contains(lines[i], RelevancePhrase) =>
                   \A k \in 1..Len(entries.value) :
                       entries.value[k].line_num # i
            /\ ~Contains(lines[i], ThresholdPhrase) =>
                   \A k \in 1..Len(warnings.value) :
                       warnings.value[k].line_number # i

\* both scans were run on a log with a line that holds both phrases, and
\* that line gave an entry and a ThresholdWarning
C29_Witness ==
    /\ entries.called
    /\ warnings.called
    /\ \E i \in 1..Len(lines) :
          /\ Contains(lines[i], RelevancePhrase)
          /\ Contains(lines[i], ThresholdPhrase)
          /\ \E k \in 1..Len(entries.value) : entries.value[k].line_num = i
          /\ \E k \in 1..Len(warnings.value) :
                warnings.value[k].line_number = i

\* both scans were run on a log with a line that holds neither phrase beside
\* a line that gave a ThresholdWarning
C29_WitnessNeither ==
    /\ entries.called
    /\ warnings.called
    /\ Len(lines) = 2
    /\ lines[2] # << >>
    /\ ~Contains(lines[2], RelevancePhrase)
    /\ ~Contains(lines[2], ThresholdPhrase)
    /\ warnings.value # << >>

\* the per-line results put together in the order of the lines
RECURSIVE Collect(_, _)
Collect(results, n) ==
    IF n = 0 THEN << >> ELSE Collect(results, n - 1) \o results[n]

\* the fields of a RelevanceScoreEntry
EntryFields(e) ==
    [document_content |-> e.document_content, metadata |-> e.metadata,
     similarity_score |-> e.similarity_score,
     quality_score |-> e.quality_score, source_line |-> e.source_line,
     timestamp |-> e.timestamp, source_file |-> e.source_file]

C30_WitnessSecondFirst ==
    /\ Len(lines) = 2
    /\ DOMAIN slots = {2}
    /\ slots[2] # << >>
    /\ Contains(lines[1], RelevancePhrase)

====
